---------------------------- MODULE Spec2Model ----------------------------
(***************************************************************************)
(* A model of the DataGov resource-matching engine                         *)
(* (src/datagov/query_builder.py, src/datagov/server.py).                  *)
(*                                                                         *)
(* Strings are sequences of characters.  A character is a one-letter       *)
(* string for ASCII and a letter name ("bet", "yod", ...) for a letter of  *)
(* the Hebrew block U+0590..U+05FF.  Python sets are TLA+ sets; a Python   *)
(* list built from a set (list(s)) is kept as the set, and a place where   *)
(* the code depends on its order is a nondeterministic choice.  Scores,    *)
(* which the code computes in binary floating point, are exact rationals   *)
(* [n, d] here.                                                            *)
(***************************************************************************)
EXTENDS Integers, Sequences, FiniteSets, TLC

VARIABLES
    raw,            \* SpecSyn: the raw expansion table SUBJECT_EXPANSIONS (key -> values)
    index,          \* SpecSyn: _BIDIRECTIONAL_EXPANSIONS
    loaded,         \* SpecSyn: whether the module has been loaded (line 656 has run)
    synLog,         \* SpecSyn: term -> what get_all_synonyms(term) returned
    query,          \* the query string of the call
    locOrder,       \* the order in which this process iterates the set ISRAELI_LOCATIONS
    decomposed,     \* <<d>> once _decompose_query(query) has returned d
    rephrased,      \* <<r>> once rephrase_query(query) has returned r
    sm_subject_tokens,     \* SpecSubject: the argument subject_tokens
    sm_expanded_subjects,  \* SpecSubject: the argument expanded_subjects
    sm_text,               \* SpecSubject: the combined text of a dataset
    sm_result,      \* SpecSubject: <<[token, without, with]>> once both texts are scored
    map_data,       \* SpecSuggest: the datasets of the resource map (the corpus)
    enterprise_schemas,  \* SpecSuggest: the content of enterprise_schemas.json
    limit,          \* SpecSuggest: the argument limit
    suggested,      \* SpecSuggest: <<r>> once suggest_for_query has returned r
    fl_candidates,  \* SpecFilter: the argument candidates
    field_intents,  \* SpecFilter: the argument field_intents
    field_index_file,  \* SpecFilter: the content of schemas/_field_index.json
    filtered,       \* SpecFilter: <<r>> once filter_by_field_availability has returned r
    ag_records,     \* SpecAgg: the argument records
    ag_fields,      \* SpecAgg: the argument fields
    aggregated,     \* SpecAgg: <<r>> once _calculate_aggregates has returned or raised
    resources_map_loaded,  \* SpecQuery: whether RESOURCES_MAP holds the resource map
    pc,             \* SpecQuery: the position of the call datagov_query(query)
    dq_candidates,  \* SpecQuery: <<r>> once the local candidates holds the result r
    alternatives,   \* SpecQuery: the list rephrase_query(query) returned
    scored,         \* SpecQuery: the alternatives scored so far, each with its result
    used_rephrase,  \* SpecQuery: <<alt_query>> once an alternative has matched
    best,           \* SpecQuery: <<c>> once the candidate c has been selected
    attempt,        \* SpecQuery: the iterations of the fetch loop that have failed
    upstream,       \* SpecQuery: the requests sent to the data API, with their responses
    outcome,        \* SpecQuery: the kind of the result returned, "" before the return
    initial_score,  \* SpecQuery: the top score of the query itself, in thousandths
    response_data,  \* SpecQuery: <<d>> once a result with the further entries d is returned
    dq_field_intents,        \* SpecQuery: the list extract_field_intents(query) returned
    schema_fields,           \* SpecQuery: the field_names _fetch_resource_schema returned
    selected_fields,         \* SpecQuery: the local selected_fields, <<>> for None
    missing_fields_warning,  \* SpecQuery: <<w>> once the warning w is built, <<>> for None
    dq_limit,                \* SpecQuery: the local limit after lines 636-640
    dq_offset,               \* SpecQuery: the local offset after line 641
    schemas_damage,          \* what is wrong with the content of enterprise_schemas.json
    schemas_loaded,          \* the global _schemas_loaded
    schemas_cache,           \* the global _enterprise_schemas, <<>> for None
    schema_index,            \* the global _enterprise_schema_index, <<>> for None
    keyword_index_loaded,    \* the global _keyword_index_loaded
    keyword_to_resources,    \* the global _keyword_to_resources, <<>> for None
    category_to_resources,   \* the global _category_to_resources, <<>> for None
    lk_log,                  \* SpecLookup: the lookups made, each with what it returned
    threads,                 \* SpecRace: the position and the locals of every caller
    nm_text,                 \* SpecNormalize: the argument text of _tokenize_hebrew
    nm_strip_prefixes,       \* SpecNormalize: the argument strip_prefixes
    nm_tokens,               \* SpecNormalize: <<r>> once _tokenize_hebrew has returned r
    nm_word,                 \* SpecNormalize: the argument word of get_hebrew_variants
    nm_variants,             \* SpecNormalize: <<r>> once get_hebrew_variants has returned r
    em_process,              \* SpecEmbed: the worker's _process: "none", "running" or "exited"
    em_stop_event,           \* SpecEmbed: the worker's _stop_event
    em_is_processing,        \* SpecEmbed: the worker's shared flag _is_processing
    em_lock,                 \* SpecEmbed: the thread that holds the repository's _lock, or ""
    em_pipe_child,           \* SpecEmbed: the commands sent and not yet received by the worker
    em_pipe_parent,          \* SpecEmbed: the results sent and not yet received by the caller
    em_worker_pc,            \* SpecEmbed: the position of the worker process
    em_command,              \* SpecEmbed: <<request>> while the worker handles a command
    em_request_pc,           \* SpecEmbed: the position of the thread in create_embeddings
    em_requests,             \* SpecEmbed: the number of calls of create_embeddings so far
    em_results,              \* SpecEmbed: how each call that has returned ended
    em_timer,                \* SpecEmbed: whether a threading.Timer of the timer is pending
    em_cancelled,            \* SpecEmbed: the timer's _cancelled
    em_timer_pc              \* SpecEmbed: the position of the timer thread

synVars == <<raw, index, loaded, synLog>>
qryVars == <<query, locOrder, decomposed, rephrased>>
smVars == <<sm_subject_tokens, sm_expanded_subjects, sm_text, sm_result>>
sgVars == <<map_data, enterprise_schemas, limit, suggested>>
flVars == <<fl_candidates, field_intents, field_index_file, filtered>>
agVars == <<ag_records, ag_fields, aggregated>>
dqVars == <<resources_map_loaded, pc, dq_candidates, alternatives, scored, used_rephrase,
           best, attempt, upstream, outcome, initial_score, response_data,
           dq_field_intents, schema_fields, selected_fields, missing_fields_warning,
           dq_limit, dq_offset>>
glVars == <<schemas_damage, schemas_loaded, schemas_cache, schema_index,
           keyword_index_loaded, keyword_to_resources, category_to_resources>>
lkVars == <<glVars, lk_log, threads>>
nmVars == <<nm_text, nm_strip_prefixes, nm_tokens, nm_word, nm_variants>>
emVars == <<em_process, em_stop_event, em_is_processing, em_lock, em_pipe_child,
           em_pipe_parent, em_worker_pc, em_command, em_request_pc, em_requests,
           em_results, em_timer, em_cancelled, em_timer_pc>>

(***************************************************************************)
(* Characters and strings                                                  *)
(***************************************************************************)
HebrewLetters ==
    {"alef", "bet", "he", "vav", "het", "tet", "yod", "kaf", "lamed", "mem", "memsofit",
     "nunsofit", "samekh", "pe", "shin", "tav"}

UpperToLower ==
    [c \in {"B", "T", "C", "S", "V", "P", "D", "F"} |->
        CASE c = "B" -> "b" [] c = "T" -> "t" [] c = "C" -> "c" [] c = "S" -> "s"
          [] c = "V" -> "v" [] c = "P" -> "p" [] c = "D" -> "d" [] c = "F" -> "f"]

Digits == {"0", "1", "2", "5", "7"}

\* str.lower() on one character: only cased (Latin) letters change
LowerChar(c) == IF c \in DOMAIN UpperToLower THEN UpperToLower[c] ELSE c

\* str.lower()
Lower(s) == [i \in 1..Len(s) |-> LowerChar(s[i])]

\* str.upper() on one character
UpperChar(c) ==
    IF \E u \in DOMAIN UpperToLower : UpperToLower[u] = c
    THEN CHOOSE u \in DOMAIN UpperToLower : UpperToLower[u] = c
    ELSE c

\* str.upper()
Upper(s) == [i \in 1..Len(s) |-> UpperChar(s[i])]

\* '֐' <= c <= '׿'
IsHebrewChar(c) == c \in HebrewLetters

\* any('֐' <= c <= '׿' for c in word)
HasHebrew(s) == \E i \in 1..Len(s) : IsHebrewChar(s[i])

\* `sub in s` for strings (substring test; the empty string is in every string)
Contains(s, sub) ==
    \E i \in 0..(Len(s) - Len(sub)) : SubSeq(s, i + 1, i + Len(sub)) = sub

\* s.startswith(p)
StartsWith(s, p) == Len(p) <= Len(s) /\ SubSeq(s, 1, Len(p)) = p

\* s.endswith(p)
EndsWith(s, p) == Len(p) <= Len(s) /\ SubSeq(s, Len(s) - Len(p) + 1, Len(s)) = p

\* s[n:]
DropFirst(s, n) == SubSeq(s, n + 1, Len(s))

\* s[:-n]
DropLast(s, n) == SubSeq(s, 1, Len(s) - n)

\* s.isdigit(): non-empty and all digits
IsDigit(s) == Len(s) > 0 /\ \A i \in 1..Len(s) : s[i] \in Digits

\* s.isascii(): no character outside ASCII (the Hebrew letters are the only ones here)
IsAscii(s) == \A i \in 1..Len(s) : ~IsHebrewChar(s[i])

\* the elements of a sequence
Range(f) == {f[i] : i \in DOMAIN f}

(***************************************************************************)
(* Synonym index                                                           *)
(***************************************************************************)
\* the synonym group of one raw entry: set(values) plus the key (lines 643-644)
Group(table, key) == table[key] \cup {key}

\* _build_bidirectional_index: every term of every group is mapped to the union
\* of the groups it occurs in
BuildBidirectionalIndex(table) ==
    LET terms == UNION {Group(table, k) : k \in DOMAIN table}
    IN  [term \in terms |->
            UNION {Group(table, k) : k \in {kk \in DOMAIN table : term \in Group(table, kk)}}]

\* dict.get(key, set())
IndexGet(idx, key) == IF key \in DOMAIN idx THEN idx[key] ELSE {}

\* a mutant of GetAllSynonyms: no [term] default for a term the index lacks
GetAllSynonymsNoDefault(idx, term) ==
    LET lowered == IndexGet(idx, Lower(term))
    IN  IF lowered # {} THEN lowered ELSE IndexGet(idx, term)

\* get_all_synonyms: look up the lower-cased term, then the term as given, and
\* fall back to [term]
GetAllSynonyms(idx, term) ==
    LET lowered  == IndexGet(idx, Lower(term))
        synonyms == IF lowered # {} THEN lowered ELSE IndexGet(idx, term)
    IN  IF synonyms # {} THEN synonyms ELSE {term}

(***************************************************************************)
(* Variables a specification does not use keep these values                *)
(***************************************************************************)
vars == <<synVars, qryVars, smVars, sgVars, flVars, agVars, dqVars, lkVars, nmVars, emVars>>

notSynVars == <<qryVars, smVars, sgVars, flVars, agVars, dqVars, lkVars, nmVars, emVars>>
notQryVars == <<synVars, smVars, sgVars, flVars, agVars, dqVars, lkVars, nmVars, emVars>>
notSmVars == <<synVars, qryVars, sgVars, flVars, agVars, dqVars, lkVars, nmVars, emVars>>
notSgVars == <<synVars, smVars, flVars, agVars, dqVars, lkVars, nmVars, emVars>>
notFlVars == <<synVars, qryVars, smVars, map_data, limit, suggested, agVars, dqVars, lkVars, nmVars, emVars>>
notAgVars == <<synVars, qryVars, smVars, sgVars, flVars, dqVars, lkVars, nmVars, emVars>>
notDqVars == <<synVars, qryVars, smVars, sgVars, flVars, agVars, lkVars, nmVars, emVars>>
notLkVars ==
    <<synVars, qryVars, smVars, map_data, limit, suggested, flVars, agVars, dqVars, nmVars, emVars>>
notNmVars == <<synVars, qryVars, smVars, sgVars, flVars, agVars, dqVars, lkVars, emVars>>
notEmVars == <<synVars, qryVars, smVars, sgVars, flVars, agVars, dqVars, lkVars, nmVars>>

QryIdle ==
    /\ query = <<>>
    /\ locOrder = <<>>
    /\ decomposed = <<>>
    /\ rephrased = <<>>

SmIdle ==
    /\ sm_subject_tokens = <<>>
    /\ sm_expanded_subjects = {}
    /\ sm_text = <<>>
    /\ sm_result = <<>>

\* no precomputed schema data
NoFlags == [k \in {} |-> TRUE]
NoSchemaFile == [present |-> FALSE, datasets |-> <<>>]
NoFieldIndexFile == [present |-> FALSE, resources |-> [rid \in {} |-> NoFlags]]

SgIdle ==
    /\ map_data = <<>>
    /\ enterprise_schemas = NoSchemaFile
    /\ limit = 0
    /\ suggested = <<>>

FlIdle ==
    /\ fl_candidates = <<>>
    /\ field_intents = <<>>
    /\ field_index_file = NoFieldIndexFile
    /\ filtered = <<>>

AgIdle ==
    /\ ag_records = <<>>
    /\ ag_fields = <<>>
    /\ aggregated = <<>>

DqIdle ==
    /\ resources_map_loaded = FALSE
    /\ pc = "idle"
    /\ dq_candidates = <<>>
    /\ alternatives = <<>>
    /\ scored = <<>>
    /\ used_rephrase = <<>>
    /\ best = <<>>
    /\ attempt = 0
    /\ upstream = <<>>
    /\ outcome = ""
    /\ initial_score = 0
    /\ response_data = <<>>
    /\ dq_field_intents = <<>>
    /\ schema_fields = <<>>
    /\ selected_fields = <<>>
    /\ missing_fields_warning = <<>>
    /\ dq_limit = 0
    /\ dq_offset = 0

LkIdle ==
    /\ schemas_damage = "none"
    /\ schemas_loaded = FALSE
    /\ schemas_cache = <<>>
    /\ schema_index = <<>>
    /\ keyword_index_loaded = FALSE
    /\ keyword_to_resources = <<>>
    /\ category_to_resources = <<>>
    /\ lk_log = <<>>
    /\ threads = <<>>

NmIdle ==
    /\ nm_text = <<>>
    /\ nm_strip_prefixes = FALSE
    /\ nm_tokens = <<>>
    /\ nm_word = <<>>
    /\ nm_variants = <<>>

EmIdle ==
    /\ em_process = "none"
    /\ em_stop_event = FALSE
    /\ em_is_processing = FALSE
    /\ em_lock = ""
    /\ em_pipe_child = <<>>
    /\ em_pipe_parent = <<>>
    /\ em_worker_pc = "none"
    /\ em_command = <<>>
    /\ em_request_pc = "idle"
    /\ em_requests = 0
    /\ em_results = <<>>
    /\ em_timer = FALSE
    /\ em_cancelled = FALSE
    /\ em_timer_pc = "idle"

\* beside the synonym index, which every other specification keeps loaded
OtherThanSynIdle == QryIdle /\ SmIdle /\ SgIdle /\ FlIdle /\ AgIdle /\ DqIdle /\ LkIdle /\ NmIdle /\ EmIdle
OtherThanQryIdle == SmIdle /\ SgIdle /\ FlIdle /\ AgIdle /\ DqIdle /\ LkIdle /\ NmIdle /\ EmIdle
OtherThanSmIdle == QryIdle /\ SgIdle /\ FlIdle /\ AgIdle /\ DqIdle /\ LkIdle /\ NmIdle /\ EmIdle
OtherThanSgIdle == SmIdle /\ FlIdle /\ AgIdle /\ DqIdle /\ LkIdle /\ NmIdle /\ EmIdle
OtherThanFlIdle ==
    /\ QryIdle /\ SmIdle /\ map_data = <<>> /\ limit = 0 /\ suggested = <<>>
    /\ AgIdle /\ DqIdle /\ LkIdle /\ NmIdle /\ EmIdle
OtherThanAgIdle == QryIdle /\ SmIdle /\ SgIdle /\ FlIdle /\ DqIdle /\ LkIdle /\ NmIdle /\ EmIdle
\* SpecQuery reads the query, the resource map and both schema files
OtherThanDqIdle ==
    /\ decomposed = <<>> /\ rephrased = <<>> /\ SmIdle /\ limit = 0 /\ suggested = <<>>
    /\ fl_candidates = <<>> /\ field_intents = <<>> /\ filtered = <<>> /\ AgIdle
    /\ LkIdle /\ NmIdle /\ EmIdle
\* SpecLookup and SpecRace read the schema file
OtherThanLkIdle ==
    /\ QryIdle /\ SmIdle /\ map_data = <<>> /\ limit = 0 /\ suggested = <<>>
    /\ FlIdle /\ AgIdle /\ DqIdle /\ NmIdle /\ EmIdle
OtherThanNmIdle ==
    QryIdle /\ SmIdle /\ SgIdle /\ FlIdle /\ AgIdle /\ DqIdle /\ LkIdle /\ EmIdle
OtherThanEmIdle ==
    QryIdle /\ SmIdle /\ SgIdle /\ FlIdle /\ AgIdle /\ DqIdle /\ LkIdle /\ NmIdle

(***************************************************************************)
(* SpecSyn: the index is built from any raw table, then read               *)
(***************************************************************************)
MaxEntries == 2

SynTerms == {<<"b">>, <<"B">>, <<"c">>, <<"x">>}

RawTables ==
    UNION {[K -> SUBSET SynTerms] : K \in {S \in SUBSET SynTerms : Cardinality(S) <= MaxEntries}}

EmptyLog == [t \in {} |-> {}]

SynInit ==
    /\ raw \in RawTables
    /\ index = EmptyLog
    /\ loaded = FALSE
    /\ synLog = EmptyLog

\* module load, line 656
LoadModule ==
    /\ ~loaded
    /\ loaded' = TRUE
    /\ index' = BuildBidirectionalIndex(raw)
    /\ UNCHANGED <<raw, synLog>>
    /\ UNCHANGED notSynVars

\* a call get_all_synonyms(term)
CallGetAllSynonyms ==
    /\ loaded
    /\ \E term \in SynTerms :
          /\ term \notin DOMAIN synLog
          /\ synLog' = [t \in DOMAIN synLog \cup {term} |->
                           IF t = term THEN GetAllSynonyms(index, term) ELSE synLog[t]]
    /\ UNCHANGED <<raw, index, loaded>>
    /\ UNCHANGED notSynVars

SynNext == LoadModule \/ CallGetAllSynonyms

SpecSynInit == SynInit /\ OtherThanSynIdle

SpecSyn == SpecSynInit /\ [][SynNext]_vars

\* x and y occur together in a group of the raw table
ShareGroup(x, y) == \E k \in DOMAIN raw : x \in Group(raw, k) /\ y \in Group(raw, k)

\* C2: for every pair of terms sharing a group, each is among the other's synonyms
\* as returned by get_all_synonyms, or neither is.
C2_Symmetric ==
    \A x \in DOMAIN synLog : \A y \in DOMAIN synLog :
        ShareGroup(x, y) => ((y \in synLog[x]) <=> (x \in synLog[y]))

\* C3 as stated: get_all_synonyms(t) contains t itself, in any letter case.
C3_ContainsTerm ==
    \A t \in DOMAIN synLog : synLog[t] # {} /\ t \in synLog[t]

\* C3 amended: get_all_synonyms(t) is never empty and contains t or its
\* lower-cased form.
C3_NonEmptyContainsFolded ==
    \A t \in DOMAIN synLog : synLog[t] # {} /\ (t \in synLog[t] \/ Lower(t) \in synLog[t])

\* C3 witness: one term absent from the index and one present were both looked up
C3_Witness ==
    /\ loaded
    /\ \E t \in DOMAIN synLog : t \notin DOMAIN index /\ Lower(t) \notin DOMAIN index
    /\ \E t \in DOMAIN synLog : Lower(t) \in DOMAIN index /\ t # Lower(t)

(***************************************************************************)
(* Static tables of query_builder.py.  The model keeps the entries of each *)
(* table that the words of Vocab can meet (as a token, a prefix-stripped   *)
(* token, a variant, or a substring of a query).                           *)
(***************************************************************************)
w_tax      == <<"t", "a", "x">>
w_Tax      == <<"T", "a", "x">>
w_zoo      == <<"z", "o", "o">>
w_of       == <<"o", "f">>
w_data     == <<"d", "a", "t", "a">>
w_77       == <<"7", "7">>
w_haifa    == <<"h", "a", "i", "f", "a">>
w_tel      == <<"t", "e", "l">>
w_phone   == <<"p", "h", "o", "n", "e">>
w_Phone   == <<"P", "h", "o", "n", "e">>
w_contact == <<"c", "o", "n", "t", "a", "c", "t">>
w_email   == <<"e", "m", "a", "i", "l">>
w_city    == <<"c", "i", "t", "y">>
w_phones  == <<"p", "h", "o", "n", "e", "s">>
w_mail    == <<"m", "a", "i", "l">>
he_telefon == <<"tet", "lamed", "pe", "vav", "nunsofit">>              \* "telephone"
w_aviv     == <<"a", "v", "i", "v">>
w_telaviv  == <<"t", "e", "l", " ", "a", "v", "i", "v">>
w_haifadistrict ==
    <<"h", "a", "i", "f", "a", " ", "d", "i", "s", "t", "r", "i", "c", "t">>
he_haifa   == <<"het", "yod", "pe", "he">>                         \* "Haifa"
he_bhaifa  == <<"bet", "het", "yod", "pe", "he">>                  \* "in Haifa"
he_telaviv == <<"tav", "lamed", " ", "alef", "bet", "yod", "bet">> \* "Tel Aviv"
he_baviv   == <<"bet", "alef", "bet", "yod", "bet">>               \* "in (the) Aviv"
he_mas     == <<"mem", "samekh">>                                  \* "tax"
he_misim   == <<"mem", "yod", "samekh", "yod", "memsofit">>        \* "taxes"
he_hamisim == <<"he", "mem", "yod", "samekh", "yod", "memsofit">>  \* "the taxes"
he_misuy   == <<"mem", "samekh", "vav", "yod">>                    \* "taxation"

\* SUBJECT_EXPANSIONS (line 617): the entry "tax" of line 594
SUBJECT_EXPANSIONS == [k \in {w_tax} |-> {he_mas, he_misim, he_misuy}]

\* ISRAELI_LOCATIONS (line 711)
ISRAELI_LOCATIONS == {w_haifa, he_haifa, w_telaviv, he_telaviv, w_haifadistrict}

\* HEBREW_PREFIXES as rebound at line 970, the value every function sees when called
HEBREW_PREFIXES ==
    {<<"bet">>, <<"lamed">>, <<"mem">>, <<"he">>, <<"vav">>, <<"kaf">>, <<"shin">>,
     <<"vav", "bet">>, <<"vav", "lamed">>, <<"vav", "mem">>, <<"vav", "he">>,
     <<"vav", "kaf">>, <<"vav", "shin">>, <<"shin", "bet">>, <<"shin", "lamed">>,
     <<"shin", "mem">>}

suffix_im == <<"yod", "memsofit">>
suffix_ot == <<"vav", "tav">>

\* HEBREW_PLURAL_SUFFIXES (line 254), in list order
HEBREW_PLURAL_SUFFIXES == <<suffix_im, suffix_ot>>

\* STOP_WORDS (line 973)
STOP_WORDS == {w_of, <<"i", "n">>, <<"t", "h", "e">>, <<"shin", "lamed">>}

\* HEBREW_STOPWORDS (line 1290)
HEBREW_STOPWORDS == {<<"shin", "lamed">>, <<"mem", "he">>}

\* ENGLISH_STOPWORDS (line 1298)
ENGLISH_STOPWORDS == {w_of, w_data, <<"i", "n">>, <<"t", "h", "e">>}

\* the characters of the class [\s,.\-:;!?()[\]{}"\'/] of line 1088
Delimiters == {" ", ",", "-", "'"}

(***************************************************************************)
(* Tokenizer and morphological normalizer                                  *)
(***************************************************************************)
RECURSIVE SplitFrom(_, _, _, _, _)
\* splitting on runs of the characters of delims, from position i, cur the piece
\* being read
SplitFrom(s, delims, i, cur, acc) ==
    IF i > Len(s) THEN Append(acc, cur)
    ELSE IF s[i] \in delims
         THEN IF i > 1 /\ s[i - 1] \in delims
              THEN SplitFrom(s, delims, i + 1, cur, acc)
              ELSE SplitFrom(s, delims, i + 1, <<>>, Append(acc, cur))
         ELSE SplitFrom(s, delims, i + 1, Append(cur, s[i]), acc)

\* re.split(r'[\s,.\-:;!?()[\]{}"\'/]+', s): the pieces between runs of delimiters,
\* with an empty piece where s starts or ends with a delimiter
ReSplit(s) == SplitFrom(s, Delimiters, 1, <<>>, <<>>)

NonEmpty(t) == t # <<>>

\* str.split(): the words between runs of whitespace, none of them empty
SplitWords(s) == SelectSeq(SplitFrom(s, {" "}, 1, <<>>, <<>>), NonEmpty)

RECURSIVE JoinFrom(_, _)
JoinFrom(words, i) ==
    IF i > Len(words) THEN <<>>
    ELSE IF i = Len(words) THEN words[i]
    ELSE words[i] \o <<" ">> \o JoinFrom(words, i + 1)

\* " ".join(words)
Join(words) == JoinFrom(words, 1)

\* s[:n] for a list
Take(s, n) == SubSeq(s, 1, IF Len(s) < n THEN Len(s) ELSE n)

\* the 2-character, then the 1-character prefix of word that is in HEBREW_PREFIXES
\* and may be stripped when at least minRest characters remain; 0 when none
PrefixLen(word, minRest) ==
    IF Len(word) >= 2 + minRest /\ SubSeq(word, 1, 2) \in HEBREW_PREFIXES THEN 2
    ELSE IF Len(word) >= 1 + minRest /\ SubSeq(word, 1, 1) \in HEBREW_PREFIXES THEN 1
    ELSE 0

\* stripped_lower == loc.lower() or stripped_lower in loc.lower(), for some location
\* (line 1067)
InKnownLocation(stripped) ==
    \E loc \in ISRAELI_LOCATIONS : Contains(Lower(loc), Lower(stripped))

\* _strip_hebrew_prefix(word, force)
StripHebrewPrefix(word, force) ==
    IF Len(word) < 4 \/ ~HasHebrew(word) THEN word
    ELSE LET two == SubSeq(word, 1, 2)
             one == SubSeq(word, 1, 1)
             ok(n) == /\ Len(word) > n + 2
                      /\ SubSeq(word, 1, n) \in HEBREW_PREFIXES
                      /\ (force \/ InKnownLocation(DropFirst(word, n)))
         IN  IF ok(2) THEN DropFirst(word, 2)
             ELSE IF ok(1) THEN DropFirst(word, 1)
             ELSE word

\* _tokenize_hebrew(text, strip_prefixes)
TokenizeHebrew(text, strip_prefixes) ==
    LET pieces == ReSplit(Lower(text))
        keep(t) == ~(Len(t) <= 1 \/ t \in STOP_WORDS)
        kept   == SelectSeq(pieces, keep)
    IN  IF text = <<>> THEN <<>>
        ELSE IF strip_prefixes
             THEN [i \in 1..Len(kept) |->
                      LET stripped == StripHebrewPrefix(kept[i], FALSE)
                      IN  IF Len(stripped) > 1 THEN stripped ELSE kept[i]]
             ELSE kept

\* the plural-suffix variants of one base form (lines 288-295)
SuffixVariants(base) ==
    UNION {IF EndsWith(base, HEBREW_PLURAL_SUFFIXES[j])
              /\ Len(base) > Len(HEBREW_PLURAL_SUFFIXES[j]) + 1
           THEN LET singular == DropLast(base, Len(HEBREW_PLURAL_SUFFIXES[j]))
                IN  IF HEBREW_PLURAL_SUFFIXES[j] = suffix_im
                    THEN {singular, Append(singular, "he")}
                    ELSE {singular}
           ELSE {} : j \in 1..Len(HEBREW_PLURAL_SUFFIXES)}

\* get_hebrew_variants(word), as a set (the code returns list(variants))
GetHebrewVariants(word) ==
    IF Len(word) < 2 THEN (IF word = <<>> THEN {} ELSE {word})
    ELSE IF ~HasHebrew(word) THEN {word, Lower(word)}
    ELSE LET n == PrefixLen(word, 2)
             stripped == DropFirst(word, n)
         IN  {word, Lower(word), stripped}
                \cup SuffixVariants(word) \cup SuffixVariants(stripped)

(***************************************************************************)
(* Query decomposition                                                     *)
(***************************************************************************)
\* token_lower == loc_lower or token_lower in loc_lower or loc_lower in token_lower,
\* for some location (lines 1223-1225 and 1236-1238)
MatchesLocation(token) ==
    \E loc \in ISRAELI_LOCATIONS :
        Contains(Lower(loc), Lower(token)) \/ Contains(Lower(token), Lower(loc))

\* the token is a location after a forced prefix strip (lines 1232-1243)
MatchesStripped(token) ==
    LET stripped == StripHebrewPrefix(token, TRUE)
    IN  stripped # token /\ MatchesLocation(stripped)

\* is_location at line 1245
IsLocation(token) == MatchesLocation(token) \/ MatchesStripped(token)

\* a mutant of IsSubject: a token found to be a location only after prefix
\* stripping is also kept as a subject
IsSubjectOrStripped(token) == ~MatchesLocation(token)

\* the tokens that reach line 1246
IsSubject(token) == ~IsLocation(token)

\* a mutant of LocationForm: the name of the gazetteer that the token matched is
\* recorded in place of the token
LocationFormOfGazetteer(token) ==
    IF MatchesLocation(token)
    THEN CHOOSE loc \in ISRAELI_LOCATIONS :
             Contains(Lower(loc), Lower(token)) \/ Contains(Lower(token), Lower(loc))
    ELSE StripHebrewPrefix(token, TRUE)

\* what the token loop appends to location_tokens for a location token
LocationForm(token) ==
    IF MatchesLocation(token) THEN token ELSE StripHebrewPrefix(token, TRUE)

\* found_synonyms of one subject token (lines 1252-1262)
FoundSynonyms(idx, token) ==
    LET variants == GetHebrewVariants(token)
    IN  UNION {IF Cardinality(GetAllSynonyms(idx, v)) > 1
               THEN GetAllSynonyms(idx, v) ELSE {} : v \in variants}
          \cup variants

RECURSIVE MultiWordPass(_, _, _, _)
\* lines 1268-1274, the locations visited in the order the set yields them
MultiWordPass(order, i, query_lower, locs) ==
    IF i > Len(order) THEN locs
    ELSE LET loc == order[i]
             add == /\ Contains(query_lower, Lower(loc))
                    /\ loc \notin Range(locs)
                    /\ Lower(loc) \notin {Lower(l) : l \in Range(locs)}
         IN  MultiWordPass(order, i + 1, query_lower,
                           IF add THEN Append(locs, loc) ELSE locs)

\* _decompose_query(query); idx is _BIDIRECTIONAL_EXPANSIONS and order the
\* iteration order of the set ISRAELI_LOCATIONS in this process
DecomposeQuery(idx, order, q) ==
    LET tokens    == TokenizeHebrew(q, FALSE)
        locTokens == SelectSeq(tokens, IsLocation)
        stripped  == [i \in 1..Len(locTokens) |-> LocationForm(locTokens[i])]
        subjects  == SelectSeq(tokens, IsSubject)
        appended  == MultiWordPass(order, 1, Lower(q), stripped)
    IN  [ subject_tokens  |-> subjects,
          location_tokens |-> appended,
          location_tokens_original |->
              locTokens \o SubSeq(appended, Len(stripped) + 1, Len(appended)),
          expanded_subjects |-> UNION {FoundSynonyms(idx, subjects[i]) : i \in 1..Len(subjects)},
          all_tokens      |-> tokens ]

(***************************************************************************)
(* Rephrasing fallback                                                     *)
(***************************************************************************)
\* the variants of a token that rephrase_query may pick as best_variant
\* (lines 1342-1357): a variant of at least 2 characters with the most synonyms,
\* more than one; the first such variant in the order list(variants) yields wins,
\* so every one of them is possible; the token itself when no variant has synonyms
BestVariants(idx, token) ==
    LET cands == {v \in GetHebrewVariants(token) :
                     Len(v) >= 2 /\ Cardinality(GetAllSynonyms(idx, v)) > 1}
        size(v) == Cardinality(GetAllSynonyms(idx, v))
    IN  IF cands = {} THEN {token}
        ELSE {v \in cands : \A u \in cands : size(u) <= size(v)}

\* the tokens that strategy 1 normalizes (line 1334)
IsNormalized(token) == ~(Len(token) < 2 \/ IsDigit(token))

\* the tests of lines 1366-1379
IsCoreSubject(token) ==
    /\ Lower(token) \notin HEBREW_STOPWORDS
    /\ Lower(token) \notin ENGLISH_STOPWORDS
    /\ token \notin ISRAELI_LOCATIONS
    /\ \A loc \in ISRAELI_LOCATIONS : Lower(loc) # Lower(token)
    /\ ~IsDigit(token)
    /\ Len(token) >= 2

\* [s for s in synonyms if s.isascii() and len(s) > 2] (line 1393)
EnglishTerms(idx, token) ==
    IF Cardinality(GetAllSynonyms(idx, token)) > 1
    THEN {t \in GetAllSynonyms(idx, token) : IsAscii(t) /\ Len(t) > 2}
    ELSE {}

RECURSIVE Strategy3(_, _, _, _)
\* lines 1389-1399 from the i-th of core_subjects[:2]: the lists `rephrased` can end
\* as; english_terms[0] is any element of the set the list was built from
Strategy3(idx, core2, i, found) ==
    IF i > Len(core2) THEN {found}
    ELSE LET english == EnglishTerms(idx, core2[i])
         IN  IF english = {} THEN Strategy3(idx, core2, i + 1, found)
             ELSE UNION {IF e \notin Range(found)
                         THEN {Append(found, e)}
                         ELSE Strategy3(idx, core2, i + 1, found) : e \in english}

\* some character of s is not whitespace (s.strip() is not empty)
HasText(s) == \E i \in 1..Len(s) : s[i] # " "

\* the sequences over 1..n whose i-th element is in choices[i]
ChoiceSeqs(choices) ==
    {f \in [1..Len(choices) -> UNION Range(choices)] : \A i \in 1..Len(choices) : f[i] \in choices[i]}

\* rephrase_query(query): the lists it can return
RephraseQuery(idx, q) ==
    LET tokens == TokenizeHebrew(q, FALSE)
        toNorm == SelectSeq(tokens, IsNormalized)
        after(normalized) ==
            LET norm_query == Join(normalized)
                r1   == IF normalized # <<>> /\ norm_query # q /\ HasText(norm_query)
                        THEN <<norm_query>> ELSE <<>>
                core == SelectSeq(normalized, IsCoreSubject)
                core_query == Join(Take(core, 3))
                r2   == IF core # <<>> /\ Len(core) < Len(normalized)
                           /\ core_query # <<>> /\ core_query \notin Range(r1)
                        THEN Append(r1, core_query) ELSE r1
            IN  {Take(r, 3) : r \in Strategy3(idx, Take(core, 2), 1, r2)}
    IN  IF tokens = <<>> THEN {<<>>}
        ELSE UNION {after(n) : n \in ChoiceSeqs([i \in 1..Len(toNorm) |-> BestVariants(idx, toNorm[i])])}

(***************************************************************************)
(* Rational numbers [n, d] with d > 0, for the scores                      *)
(***************************************************************************)
RECURSIVE GCD(_, _)
GCD(a, b) == IF b = 0 THEN a ELSE GCD(b, a % b)

Rat(n, d) == LET g == GCD(IF n < 0 THEN -n ELSE n, d)
             IN  IF n = 0 THEN [n |-> 0, d |-> 1] ELSE [n |-> n \div g, d |-> d \div g]

RAdd(x, y) == Rat(x.n * y.d + y.n * x.d, x.d * y.d)
RMul(x, y) == Rat(x.n * y.n, x.d * y.d)
RLess(x, y) == x.n * y.d < y.n * x.d
RLeq(x, y) == x.n * y.d <= y.n * x.d
RMin(x, y) == IF RLess(y, x) THEN y ELSE x
Zero == Rat(0, 1)
One == Rat(1, 1)

\* round(x, 3) in thousandths, for x >= 0; the nearest thousandth, a tie going up
Round3(x) == (2000 * x.n + x.d) \div (2 * x.d)

RECURSIVE SumFn(_, _)
\* the sum of f[x] over the x of the finite set S
SumFn(f, S) ==
    IF S = {} THEN 0
    ELSE LET x == CHOOSE y \in S : TRUE IN f[x] + SumFn(f, S \ {x})

\* the sum of the numbers of a sequence, or of the values of a function
Sum(f) == SumFn(f, DOMAIN f)

(***************************************************************************)
(* Scoring                                                                 *)
(***************************************************************************)
\* a mutant of SubjectTokenMatch: the exact-token test of line 1448 is missing
SubjectTokenMatchSubstringOnly(st, text_tokens, text_lower) ==
    IF Contains(text_lower, st) THEN 7 ELSE 0

\* what one subject token adds to `matches`, in tenths (lines 1448-1451)
SubjectTokenMatch(st, text_tokens, text_lower) ==
    IF st \in text_tokens THEN 10
    ELSE IF Contains(text_lower, st) THEN 7
    ELSE 0

\* what one expansion adds to `matches`, in tenths (lines 1456-1466)
ExpansionMatch(exp, text_lower) ==
    IF Contains(text_lower, Lower(exp)) THEN 8
    ELSE IF \E w \in Range(SplitWords(Lower(exp))) : Len(w) > 2 /\ Contains(text_lower, w)
         THEN 4
    ELSE 0

\* _calculate_subject_match(subject_tokens, expanded_subjects, text); stoks is the
\* list subject_tokens and exps the elements of the duplicate-free list
\* expanded_subjects.  matches is counted in tenths and total_checks in halves.
CalculateSubjectMatch(stoks, exps, text) ==
    IF text = <<>> \/ (stoks = <<>> /\ exps = {}) THEN Zero
    ELSE LET text_lower  == Lower(text)
             text_tokens == Range(TokenizeHebrew(text, FALSE))
             matches     ==
                 Sum([i \in 1..Len(stoks) |-> SubjectTokenMatch(stoks[i], text_tokens, text_lower)])
                 + Sum([e \in exps |-> ExpansionMatch(e, text_lower)])
             total       == 2 * Len(stoks) + Cardinality(exps)
         IN  RMin(One, Rat(matches, 5 * total))

\* _calculate_location_match(location_tokens, text)
CalculateLocationMatch(ltoks, text) ==
    IF ltoks = <<>> \/ text = <<>> THEN Zero
    ELSE LET hits == [i \in 1..Len(ltoks) |-> IF Contains(Lower(text), ltoks[i]) THEN 1 ELSE 0]
         IN  RMin(One, Rat(Sum(hits), Len(ltoks)))

(***************************************************************************)
(* Precomputed schemas (enterprise_schemas.json) and the keyword index     *)
(* built from them.  The file is [present, datasets]; a dataset of the     *)
(* file is [title, keywords, categories, resources, field_availability],   *)
(* resources being the list of its resource_id values.  An identifier is a *)
(* TLA+ string, the empty one for a missing (None or "") identifier.       *)
(***************************************************************************)
NoId == ""

\* the number of entries of a list equal to x
Count(s, x) == Cardinality({i \in DOMAIN s : s[i] = x})

RECURSIVE Repeat(_, _)
\* the list s, n times over
Repeat(s, n) == IF n = 0 THEN <<>> ELSE s \o Repeat(s, n - 1)

HasId(rid) == rid # NoId

\* _enterprise_schema_index of _load_enterprise_schemas (lines 122-133): for every
\* resource_id the entry of the last dataset of the file that lists it, with the
\* fields of the last resource of that dataset that has the id
EnterpriseSchemaIndex(file) ==
    LET dss  == file.datasets
        rids == UNION {Range(dss[i].resources) : i \in DOMAIN dss} \ {NoId}
        last(rid) == CHOOSE i \in DOMAIN dss :
                        /\ rid \in Range(dss[i].resources)
                        /\ \A j \in DOMAIN dss : rid \in Range(dss[j].resources) => j <= i
        lastRes(rid) == CHOOSE k \in DOMAIN dss[last(rid)].resources :
                        /\ dss[last(rid)].resources[k] = rid
                        /\ \A j \in DOMAIN dss[last(rid)].resources :
                              dss[last(rid)].resources[j] = rid => j <= k
    IN  [rid \in rids |-> [fields     |-> dss[last(rid)].fields[lastRes(rid)],
                           categories |-> dss[last(rid)].categories,
                           keywords   |-> dss[last(rid)].keywords,
                           field_availability |-> dss[last(rid)].field_availability]]

\* get_resource_schema(resource_id): <<>> for None, else <<entry>>
GetResourceSchema(file, rid) ==
    IF ~file.present THEN <<>>
    ELSE IF rid \in DOMAIN EnterpriseSchemaIndex(file)
         THEN <<EnterpriseSchemaIndex(file)[rid]>>
         ELSE <<>>

\* the keys under which _load_keyword_index files one dataset in
\* _keyword_to_resources, in order: its keywords, then the words of its title
\* longer than 2 characters (lines 192-208)
KeywordKeys(ds) ==
    LET long(w) == Len(w) > 2
    IN  [i \in 1..Len(ds.keywords) |-> Lower(ds.keywords[i])]
            \o SelectSeq(SplitWords(Lower(ds.title)), long)

RECURSIVE BucketFrom(_, _, _)
\* the bucket of key after the datasets i.. of the file: resource_ids is appended
\* (list.extend) once for every time the dataset has the key
BucketFrom(dss, key, i) ==
    IF i > Len(dss) THEN <<>>
    ELSE LET resource_ids == SelectSeq(dss[i].resources, HasId)
         IN  Repeat(resource_ids, Count(KeywordKeys(dss[i]), key))
                 \o BucketFrom(dss, key, i + 1)

\* _keyword_to_resources once _load_keyword_index has run
KeywordToResources(file) ==
    IF ~file.present THEN [k \in {} |-> <<>>]
    ELSE LET dss  == file.datasets
             keys == UNION {IF SelectSeq(dss[i].resources, HasId) = <<>> THEN {}
                            ELSE Range(KeywordKeys(dss[i])) : i \in DOMAIN dss}
         IN  [k \in keys |-> BucketFrom(dss, k, 1)]

\* _keyword_to_resources.get(key, [])
BucketGet(kidx, key) == IF key \in DOMAIN kidx THEN kidx[key] ELSE <<>>

\* what one token adds to resource_matches[rid], in tenths (lines 314-345)
TokenMatches(idx, kidx, token, rid) ==
    LET variants  == GetHebrewVariants(token)
        vlowers   == {Lower(v) : v \in variants}
        slowers   == {Lower(syn) : syn \in UNION {GetAllSynonyms(idx, v) : v \in variants}}
                         \ vlowers
    IN  Sum([vl \in vlowers |->
                Count(BucketGet(kidx, vl), rid) * (IF vl = Lower(token) THEN 10 ELSE 8)])
        + Sum([sl \in slowers |-> Count(BucketGet(kidx, sl), rid) * 5])

\* find_matching_resources(query_tokens), query_tokens being the list stoks
\* followed by the elements of exps: resource_id -> match score in tenths
FindMatchingResources(idx, file, stoks, exps) ==
    LET kidx  == KeywordToResources(file)
        rids  == UNION {Range(kidx[k]) : k \in DOMAIN kidx}
        total(rid) ==
            Sum([i \in 1..Len(stoks) |-> TokenMatches(idx, kidx, stoks[i], rid)])
            + Sum([e \in exps |-> TokenMatches(idx, kidx, e, rid)])
    IN  [rid \in {r \in rids : total(r) > 0} |-> total(rid)]

(***************************************************************************)
(* suggest_for_query.  A dataset of the corpus (map_data["datasets"]) is   *)
(* [id, title, name, tags, organization, resources] and a resource is      *)
(* [id, title, name, format]; an absent or empty string is <<>>.           *)
(***************************************************************************)
w_CSV  == <<"C", "S", "V">>
w_PDF  == <<"P", "D", "F">>

\* a or b, for strings
OrElse(a, b) == IF a # <<>> THEN a ELSE b

\* all_ds_text (line 1542)
AllDsText(ds) ==
    OrElse(ds.title, ds.name) \o <<" ">> \o ds.name \o <<" ">> \o Join(ds.tags)
        \o <<" ">> \o ds.organization

\* min_subject_threshold (line 1525)
MinSubjectThreshold(stoks) == IF stoks # <<>> THEN Rat(15, 100) ELSE Zero

\* a mutant of PassesSubjectCutoff: no dataset is skipped
PassesSubjectCutoffAlways(stoks, subject_score) == TRUE

\* the negation of the test of line 1548, after which the dataset is skipped
PassesSubjectCutoff(stoks, subject_score) ==
    ~(stoks # <<>> /\ RLess(subject_score, MinSubjectThreshold(stoks)))

\* fmt_bonus (lines 1569-1576); only the formats of the model's corpora are kept
FormatBonus(fmt) ==
    IF fmt = w_CSV THEN Rat(15, 100)
    ELSE IF fmt = w_PDF THEN Rat(2, 100)
    ELSE Zero

RECURSIVE CategoryBonus(_, _, _, _)
\* the category-match bonus of lines 1589-1600, in hundredths, from category i on:
\* 0.12 ends the loop, 0.10 ends only the loop over the expansions of one category
CategoryBonus(table, cats, i, query_lower) ==
    IF i > Len(cats) THEN 0
    ELSE IF Contains(query_lower, Lower(cats[i])) THEN 12
    ELSE (IF cats[i] \in DOMAIN table
             /\ \E exp \in table[cats[i]] : Contains(query_lower, Lower(exp))
          THEN 10 ELSE 0)
         + CategoryBonus(table, cats, i + 1, query_lower)

\* ds_keywords[:25] (line 1604)
KeywordsChecked == 25

\* the keyword-match bonus of lines 1602-1610, in hundredths
KeywordBonus(keywords, query_lower) ==
    LET first == Take(keywords, KeywordsChecked)
        hits  == Cardinality({i \in DOMAIN first :
                     \/ Contains(query_lower, Lower(first[i]))
                     \/ Contains(Lower(first[i]), query_lower)})
        keyword_matches == IF hits >= 3 THEN 3 ELSE hits
    IN  IF 4 * keyword_matches < 10 THEN 4 * keyword_matches ELSE 10

\* resource_score of one resource r of a dataset with base score base_score
\* (lines 1559-1617)
ResourceScore(table, file, kscores, q, stoks, exps, base_score, r) ==
    LET rt  == OrElse(r.title, r.name)
        fmt == Upper(r.format)
        res_subject_score == CalculateSubjectMatch(stoks, exps, rt)
        schema_info == IF HasId(r.id) THEN GetResourceSchema(file, r.id) ELSE <<>>
        schema_bonus ==
            IF schema_info = <<>> THEN 0
            ELSE CategoryBonus(table, schema_info[1].categories, 1, Lower(q))
                 + KeywordBonus(schema_info[1].keywords, Lower(q))
        keyword_boost ==
            IF HasId(r.id) /\ r.id \in DOMAIN kscores
            THEN RMin(Rat(25, 100), Rat(kscores[r.id] * 8, 1000))
            ELSE Zero
    IN  RAdd(RAdd(RAdd(RAdd(base_score, RMul(res_subject_score, Rat(15, 100))),
                       FormatBonus(fmt)),
                  Rat(schema_bonus, 100)),
             keyword_boost)

\* a mutant of Retained: every scored resource is retained
RetainedAlways(resource_score) == TRUE

\* the test of line 1620
Retained(resource_score) == RLess(Rat(1, 10), resource_score)

\* round(min(1.0, resource_score), 3) (line 1630), in thousandths
ReportedScore(resource_score) == Round3(RMin(One, resource_score))

\* the candidates one dataset adds (lines 1534-1633), in the order of its resources
DatasetCandidates(table, file, kscores, q, d, ds) ==
    LET all_ds_text    == AllDsText(ds)
        subject_score  == CalculateSubjectMatch(d.subject_tokens, d.expanded_subjects,
                                                all_ds_text)
        location_score == CalculateLocationMatch(d.location_tokens, all_ds_text)
        base_score     == RAdd(RMul(subject_score, Rat(7, 10)),
                               RMul(location_score, Rat(1, 10)))
        rscore(r)      == ResourceScore(table, file, kscores, q, d.subject_tokens,
                                        d.expanded_subjects, base_score, r)
        cand(r)        == [dataset_id     |-> ds.id,
                           resource_id    |-> r.id,
                           format         |-> Upper(r.format),
                           score          |-> ReportedScore(rscore(r)),
                           subject_score  |-> Round3(subject_score),
                           location_score |-> Round3(location_score)]
        kept(r)        == Retained(rscore(r))
    IN  IF ~PassesSubjectCutoff(d.subject_tokens, subject_score) THEN <<>>
        ELSE LET rs == SelectSeq(ds.resources, kept)
             IN  [i \in 1..Len(rs) |-> cand(rs[i])]

RECURSIVE AllCandidates(_, _, _, _, _, _, _)
\* the list candidates after the loop over the datasets, from dataset i on
AllCandidates(table, file, kscores, q, d, dss, i) ==
    IF i > Len(dss) THEN <<>>
    ELSE DatasetCandidates(table, file, kscores, q, d, dss[i])
             \o AllCandidates(table, file, kscores, q, d, dss, i + 1)

\* a mutant of InsertByScore: c goes before the entries of equal score
InsertByScoreUnstable(sorted, c) ==
    LET k == Cardinality({i \in DOMAIN sorted : sorted[i].score > c.score})
    IN  SubSeq(sorted, 1, k) \o <<c>> \o SubSeq(sorted, k + 1, Len(sorted))

\* one step of the stable sort: c goes behind every entry whose score is not lower
InsertByScore(sorted, c) ==
    LET k == Cardinality({i \in DOMAIN sorted : sorted[i].score >= c.score})
    IN  SubSeq(sorted, 1, k) \o <<c>> \o SubSeq(sorted, k + 1, Len(sorted))

RECURSIVE SortByScore(_, _, _)
\* candidates.sort(key=score, reverse=True) (line 1636): stable, from entry i on
SortByScore(cands, i, sorted) ==
    IF i > Len(cands) THEN sorted
    ELSE SortByScore(cands, i + 1, InsertByScore(sorted, cands[i]))

\* s[:n] (line 1637); a negative n counts from the end
SliceTo(s, n) ==
    IF n >= 0 THEN Take(s, n)
    ELSE IF Len(s) + n > 0 THEN SubSeq(s, 1, Len(s) + n) ELSE <<>>

\* the rest of suggest_for_query once the query is decomposed into d and the
\* keyword index has given kscores (lines 1531-1675); a template is kept as the
\* resource and the dataset its requests are built for
\* the expansions the result reports (line 1658)
ExpansionsReported == 10

\* expanded_subjects[:10]: all the expansions when there are at most ten of them,
\* else the ten that come first in the list, whose order is that of a set
FirstExpansions(S) ==
    IF Cardinality(S) <= ExpansionsReported THEN S
    ELSE CHOOSE T \in SUBSET S : Cardinality(T) = ExpansionsReported

\* the entry "decomposition" of the result (lines 1655-1660)
ReportedDecomposition(d) ==
    [subject_tokens    |-> d.subject_tokens,
     location_tokens   |-> d.location_tokens,
     expanded_subjects |-> FirstExpansions(d.expanded_subjects),
     all_tokens        |-> d.all_tokens]

SuggestWith(table, file, q, mapd, lim, d, kscores) ==
    LET cands == AllCandidates(table, file, kscores, q, d, mapd, 1)
        top   == SliceTo(SortByScore(cands, 1, <<>>), lim)
    IN  [query         |-> q,
         decomposition |-> ReportedDecomposition(d),
         candidates    |-> top,
         templates     |-> [i \in 1..Len(top) |->
                               [choice |-> top[i], resource_id |-> top[i].resource_id,
                                dataset_id |-> top[i].dataset_id]],
         total_matched |-> Len(cands),
         has_message   |-> Len(cands) = 0]

\* suggest_for_query(query, map_data, limit): the decomposition and the keyword
\* scores are computed once (lines 1519 and 1529) and then used by the loop
SuggestForQuery(idx, table, order, file, q, mapd, lim) ==
    CHOOSE r \in UNION {{SuggestWith(table, file, q, mapd, lim, d, kscores) :
                            kscores \in {FindMatchingResources(idx, file, d.subject_tokens,
                                                               d.expanded_subjects)}} :
                        d \in {DecomposeQuery(idx, order, q)}} : TRUE

(***************************************************************************)
(* Inputs of the engine: queries made of the words of Vocab                *)
(***************************************************************************)
MaxQueryWords == 2

Vocab == {w_tax, w_Tax, w_zoo, w_of, w_data, w_77, w_haifa, w_tel, w_aviv,
          he_bhaifa, he_baviv, he_hamisim}

Separators == {<<" ">>, <<",", " ">>}

RECURSIVE QueriesOf(_)
\* the queries of exactly n words
QueriesOf(n) ==
    IF n = 0 THEN {<<>>}
    ELSE IF n = 1 THEN Vocab
    ELSE {q \o sep \o w : q \in QueriesOf(n - 1), sep \in Separators, w \in Vocab}

\* the queries of up to MaxQueryWords words, and one that names two places of
\* two words each
Queries ==
    UNION {QueriesOf(n) : n \in 0..MaxQueryWords}
        \cup {Join(<<w_haifadistrict, w_telaviv>>)}

\* the orders in which a process may iterate the set ISRAELI_LOCATIONS
LocOrders ==
    {<<w_haifa, he_haifa, w_telaviv, he_telaviv, w_haifadistrict>>,
     <<w_haifadistrict, he_telaviv, w_telaviv, he_haifa, w_haifa>>}

(***************************************************************************)
(* SpecDecompose and SpecRephrase: one call on any query, the synonym      *)
(* index built from SUBJECT_EXPANSIONS at module load                      *)
(***************************************************************************)
\* the module is loaded: lines 617 and 656 have run
SynLoaded ==
    /\ raw = SUBJECT_EXPANSIONS
    /\ index = BuildBidirectionalIndex(SUBJECT_EXPANSIONS)
    /\ loaded = TRUE
    /\ synLog = EmptyLog

QryInit ==
    /\ query \in Queries
    /\ locOrder \in LocOrders
    /\ decomposed = <<>>
    /\ rephrased = <<>>

\* a call _decompose_query(query)
CallDecomposeQuery ==
    /\ decomposed = <<>>
    /\ decomposed' = <<DecomposeQuery(index, locOrder, query)>>
    /\ UNCHANGED <<query, locOrder, rephrased>>
    /\ UNCHANGED notQryVars

\* a call rephrase_query(query)
CallRephraseQuery ==
    /\ rephrased = <<>>
    /\ \E r \in RephraseQuery(index, query) : rephrased' = <<r>>
    /\ UNCHANGED <<query, locOrder, decomposed>>
    /\ UNCHANGED notQryVars

\* the state after construction for the specifications of one call on a query
SpecQryInit == SynLoaded /\ QryInit /\ OtherThanQryIdle

DecomposeNext == CallDecomposeQuery

SpecDecompose == SpecQryInit /\ [][DecomposeNext]_vars

RephraseNext == CallRephraseQuery

SpecRephrase == SpecQryInit /\ [][RephraseNext]_vars

RECURSIVE IsMerge(_, _, _)
\* all is an interleaving of the sequences xs and ys
IsMerge(all, xs, ys) ==
    IF all = <<>> THEN xs = <<>> /\ ys = <<>>
    ELSE \/ xs # <<>> /\ Head(xs) = Head(all) /\ IsMerge(Tail(all), Tail(xs), ys)
         \/ ys # <<>> /\ Head(ys) = Head(all) /\ IsMerge(Tail(all), xs, Tail(ys))

\* the number of entries the token loop put in location_tokens
TokenLocations(d) == Len(d.all_tokens) - Len(d.subject_tokens)

C6_AlternativesDiffer ==
    \A r \in Range(rephrased) :
        Len(r) <= 3 /\ \A i \in 1..Len(r) : r[i] # query

(***************************************************************************)
(* SpecSubject: _calculate_subject_match on the text of a dataset and on   *)
(* the same text with one subject token added to it as a word              *)
(***************************************************************************)
MaxSubjectTokens == 2

w_taxi == <<"t", "a", "x", "i">>

SubjectWords == {w_tax, w_zoo}

ExpansionPool == {w_tax, he_mas, he_misim, he_misuy}

\* the lists of 1..n subject tokens
SubjectLists(n) == UNION {[1..k -> SubjectWords] : k \in 1..n}

\* combined texts of a dataset: title, name, tags and organization
SubjectTexts ==
    {<<>>,
     w_data,
     w_taxi,
     Join(<<he_misim, w_haifa>>),
     Join(<<w_taxi, he_misim, he_misuy>>)}

SubjectInit ==
    /\ sm_subject_tokens \in SubjectLists(MaxSubjectTokens)
    /\ sm_expanded_subjects \in SUBSET ExpansionPool
    /\ sm_text \in SubjectTexts
    /\ sm_result = <<>>

\* text with the word w added at its start or at its end
WithWord(text, w, atEnd) ==
    IF text = <<>> THEN w
    ELSE IF atEnd THEN text \o <<" ">> \o w ELSE w \o <<" ">> \o text

\* the calls _calculate_subject_match(subject_tokens, expanded_subjects, text) for
\* a text that lacks the subject token st as a word and for the text with st added
CallCalculateSubjectMatch ==
    /\ sm_result = <<>>
    /\ \E i \in 1..Len(sm_subject_tokens), atEnd \in BOOLEAN :
          LET st == sm_subject_tokens[i]
          IN  /\ st \notin Range(TokenizeHebrew(sm_text, FALSE))
              /\ sm_result' =
                    <<[token   |-> st,
                       without |-> CalculateSubjectMatch(sm_subject_tokens,
                                       sm_expanded_subjects, sm_text),
                       with    |-> CalculateSubjectMatch(sm_subject_tokens,
                                       sm_expanded_subjects, WithWord(sm_text, st, atEnd))]>>
    /\ UNCHANGED <<sm_subject_tokens, sm_expanded_subjects, sm_text>>
    /\ UNCHANGED notSmVars

SubjectNext == CallCalculateSubjectMatch

SpecSubjectInit == SubjectInit /\ SynLoaded /\ OtherThanSmIdle

SpecSubject == SpecSubjectInit /\ [][SubjectNext]_vars

\* C5 as stated: the text with an exact token match for a subject token scores
\* strictly more than the otherwise identical text without it.
C5_StrictlyGreater ==
    \A r \in Range(sm_result) : RLess(r.without, r.with)

\* C5 amended: the text with the exact match never scores less, and scores
\* strictly more whenever the text without it scores below the cap of 1.
C5_GreaterBelowCap ==
    \A r \in Range(sm_result) :
        /\ RLeq(r.without, r.with)
        /\ RLess(r.without, One) => RLess(r.without, r.with)

\* C5 witness: a text that already matches in part and scores below 1 gains
\* score from the added token
C5_Witness ==
    \E r \in Range(sm_result) :
        /\ RLess(Zero, r.without)
        /\ RLess(r.without, r.with)
        /\ RLess(r.with, One)

(***************************************************************************)
(* SpecSuggest: one call suggest_for_query(query, map_data, limit) on a    *)
(* corpus of up to MaxDatasets datasets                                    *)
(***************************************************************************)
MaxDatasets == 2

\* a dataset whose text has the subject "tax" and the location "haifa"
DsTaxHaifa ==
    [id |-> "d1", title |-> Join(<<w_tax, w_haifa>>), name |-> <<>>, tags |-> <<>>,
     organization |-> <<>>,
     resources |-> <<[id |-> "r1", title |-> Join(<<w_tax, w_data>>), name |-> <<>>,
                      format |-> Lower(w_CSV)],
                     [id |-> NoId, title |-> <<>>, name |-> w_zoo, format |-> w_PDF]>>]

\* a dataset about another subject, with the location in a tag and the organization
DsZooHaifa ==
    [id |-> "d2", title |-> w_zoo, name |-> <<>>, tags |-> <<he_haifa>>,
     organization |-> w_haifa,
     resources |-> <<[id |-> "r3", title |-> w_zoo, name |-> <<>>, format |-> w_CSV]>>]

\* a dataset with no title, named by one Hebrew expansion of "tax"
DsMas ==
    [id |-> "d3", title |-> <<>>, name |-> he_mas, tags |-> <<>>, organization |-> <<>>,
     resources |-> <<[id |-> "r4", title |-> he_misuy, name |-> <<>>, format |-> <<>>]>>]

DatasetPool == {DsTaxHaifa, DsZooHaifa, DsMas}

\* the corpora of up to n datasets
Corpora(n) == UNION {[1..k -> DatasetPool] : k \in 0..n}

\* res.get("fields", []) of a resource of the file without fields
NoFields == <<>>

\* the fields of a resource: a telephone column tagged with the semantic type
\* "phone", an untagged column and the internal _id
FieldsOfTax ==
    <<[name |-> <<"_", "i", "d">>, semantic |-> <<>>],
      [name |-> he_telefon, semantic |-> w_phone],
      [name |-> w_city, semantic |-> <<>>]>>

\* a file that gives the resource of DsZooHaifa the keywords of "tax" and the
\* categories "tax" and "zoo"
SchemaFileZoo ==
    [present |-> TRUE,
     datasets |-> <<[title |-> Join(<<w_zoo, w_Tax>>), keywords |-> <<w_Tax, he_misim>>,
                     categories |-> <<w_tax, w_zoo>>, resources |-> <<"r3">>,
                     fields |-> <<NoFields>>,
                     field_availability |-> [k \in {"has_phone"} |-> TRUE]]>>]

\* a file with two datasets that share a resource
SchemaFileTax ==
    [present |-> TRUE,
     datasets |-> <<[title |-> w_tax, keywords |-> <<he_mas>>,
                     categories |-> <<w_zoo, w_tax>>, resources |-> <<"r1", NoId>>,
                     fields |-> <<NoFields, NoFields>>,
                     field_availability |-> [k \in {"has_phone", "has_email"} |-> FALSE]],
                    [title |-> <<>>, keywords |-> <<w_haifa>>,
                     categories |-> <<>>, resources |-> <<"r4", "r1">>,
                     fields |-> <<NoFields, FieldsOfTax>>,
                     field_availability |-> NoFlags]>>]

SchemaFiles == {NoSchemaFile, SchemaFileZoo, SchemaFileTax}

SuggestQueries ==
    {<<>>, w_tax, w_haifa, Join(<<w_tax, w_haifa>>), Join(<<w_zoo, he_bhaifa>>),
     he_hamisim, Join(<<w_zoo, he_hamisim>>), Join(<<w_Tax, w_of, w_telaviv>>)}

Limits == {0, 1, 10}

SuggestInit ==
    /\ query \in SuggestQueries
    /\ locOrder \in LocOrders
    /\ decomposed = <<>>
    /\ rephrased = <<>>
    /\ map_data \in Corpora(MaxDatasets)
    /\ enterprise_schemas \in SchemaFiles
    /\ limit \in Limits
    /\ suggested = <<>>

\* a call suggest_for_query(query, map_data, limit)
CallSuggestForQuery ==
    /\ suggested = <<>>
    /\ suggested' = <<SuggestForQuery(index, raw, locOrder, enterprise_schemas,
                                      query, map_data, limit)>>
    /\ UNCHANGED <<query, locOrder, decomposed, rephrased>>
    /\ UNCHANGED <<map_data, enterprise_schemas, limit>>
    /\ UNCHANGED notSgVars

SuggestNext == CallSuggestForQuery

SpecSuggestInit == SynLoaded /\ SuggestInit /\ OtherThanSgIdle

SpecSuggest == SpecSuggestInit /\ [][SuggestNext]_vars

\* x occurs in the text, letter case aside
Appears(x, text) == Contains(Lower(text), Lower(x))

\* the candidates and templates of r that come from the dataset ds
FromDataset(r, ds) ==
    {i \in DOMAIN r.candidates : r.candidates[i].dataset_id = ds.id}
        \cup {i \in DOMAIN r.templates : r.templates[i].dataset_id = ds.id}

w_Contact == <<"C", "o", "n", "t", "a", "c", "t">>
w_address == <<"a", "d", "d", "r", "e", "s", "s">>
w_location == <<"l", "o", "c", "a", "t", "i", "o", "n">>
w_date    == <<"d", "a", "t", "e">>
w_color   == <<"c", "o", "l", "o", "r">>

\* intent_mapping.get(intent.lower()) of check_field_availability (lines 369-381),
\* "" when the intent is unknown; the entries of the words above
IntentKey(intent) ==
    LET il == Lower(intent)
    IN  IF il \in {w_phone, w_contact} THEN "has_phone"
        ELSE IF il = w_address THEN "has_address"
        ELSE IF il \in {w_location, w_city} THEN "has_location"
        ELSE IF il = w_email THEN "has_email"
        ELSE IF il = w_date THEN "has_date"
        ELSE ""

\* flags.get(key, True)
FlagGet(flags, key) == IF key \in DOMAIN flags THEN flags[key] ELSE TRUE

\* check_field_availability(resource_id, intent)
CheckFieldAvailability(ffile, file, rid, intent) ==
    LET key == IntentKey(intent)
        schema == GetResourceSchema(file, rid)
    IN  IF key = "" THEN TRUE
        ELSE IF ffile.present /\ rid \in DOMAIN ffile.resources
             THEN FlagGet(ffile.resources[rid], key)
        ELSE IF schema = <<>> THEN TRUE
        ELSE FlagGet(schema[1].field_availability, key)

RECURSIVE RelevantIntents(_, _)
\* relevant_intents (lines 423-435), from intent i on; the words above
RelevantIntents(intents, i) ==
    IF i > Len(intents) THEN <<>>
    ELSE LET il == Lower(intents[i])
             this == IF il \in {w_phone, w_phones, he_telefon, w_contact} THEN <<w_phone>>
                     ELSE IF il \in {w_address, w_location} THEN <<w_address>>
                     ELSE IF il = w_email THEN <<w_email>>
                     ELSE IF il = w_date THEN <<w_date>>
                     ELSE IF il = w_city THEN <<w_location>>
                     ELSE <<>>
         IN  this \o RelevantIntents(intents, i + 1)

\* a mutant of KeepAvailable: those candidates first, the other ones after them
KeepAvailableFirst(ffile, file, cands, relevant) ==
    LET all_available(c) ==
            /\ HasId(c.resource_id)
            /\ \A i \in DOMAIN relevant :
                  CheckFieldAvailability(ffile, file, c.resource_id, relevant[i])
        other(c) == ~all_available(c)
    IN  SelectSeq(cands, all_available) \o SelectSeq(cands, other)

\* the candidates that have a resource_id and every relevant field (lines 440-454)
KeepAvailable(ffile, file, cands, relevant) ==
    LET all_available(c) ==
            /\ HasId(c.resource_id)
            /\ \A i \in DOMAIN relevant :
                  CheckFieldAvailability(ffile, file, c.resource_id, relevant[i])
    IN  SelectSeq(cands, all_available)

\* a mutant of FilterByFieldAvailability: no graceful degradation
FilterByFieldAvailabilityStrict(ffile, file, cands, intents) ==
    IF intents = <<>> \/ RelevantIntents(intents, 1) = <<>> THEN cands
    ELSE KeepAvailable(ffile, file, cands, RelevantIntents(intents, 1))

\* filter_by_field_availability(candidates, field_intents)
FilterByFieldAvailability(ffile, file, cands, intents) ==
    IF intents = <<>> \/ RelevantIntents(intents, 1) = <<>> THEN cands
    ELSE IF KeepAvailable(ffile, file, cands, RelevantIntents(intents, 1)) = <<>> THEN cands
    ELSE KeepAvailable(ffile, file, cands, RelevantIntents(intents, 1))

(***************************************************************************)
(* SpecFilter: one call filter_by_field_availability(candidates, intents)  *)
(***************************************************************************)
MaxCandidates == 2

MaxIntents == 2

\* candidates as suggest_for_query returns them, one of them without resource_id
CandidatePool ==
    {[dataset_id |-> "d1", resource_id |-> "r1", format |-> w_CSV, score |-> 900,
      subject_score |-> 1000, location_score |-> 0],
     [dataset_id |-> "d1", resource_id |-> NoId, format |-> w_PDF, score |-> 720,
      subject_score |-> 1000, location_score |-> 0],
     [dataset_id |-> "d2", resource_id |-> "r3", format |-> w_CSV, score |-> 400,
      subject_score |-> 267, location_score |-> 1000],
     [dataset_id |-> "d3", resource_id |-> "r4", format |-> <<>>, score |-> 267,
      subject_score |-> 267, location_score |-> 0]}

IntentPool == {w_phone, w_Contact, w_email, w_color}

\* the lists of up to n elements of S
ListsOf(S, n) == UNION {[1..k -> S] : k \in 0..n}

\* schemas/_field_index.json with entries for two resources
FieldIndexFile ==
    [present |-> TRUE,
     resources |-> [rid \in {"r1", "r3"} |->
                       IF rid = "r1" THEN [k \in {"has_phone", "has_email"} |-> k = "has_phone"]
                       ELSE [k \in {"has_phone"} |-> FALSE]]]

FieldIndexFiles == {NoFieldIndexFile, FieldIndexFile}

FilterInit ==
    /\ fl_candidates \in ListsOf(CandidatePool, MaxCandidates)
    /\ field_intents \in ListsOf(IntentPool, MaxIntents)
    /\ field_index_file \in FieldIndexFiles
    /\ enterprise_schemas \in SchemaFiles
    /\ filtered = <<>>

\* a call filter_by_field_availability(candidates, field_intents)
CallFilterByFieldAvailability ==
    /\ filtered = <<>>
    /\ filtered' = <<FilterByFieldAvailability(field_index_file, enterprise_schemas,
                                               fl_candidates, field_intents)>>
    /\ UNCHANGED <<fl_candidates, field_intents, field_index_file, enterprise_schemas>>
    /\ UNCHANGED notFlVars

FilterNext == CallFilterByFieldAvailability

SpecFilterInit == SynLoaded /\ FilterInit /\ OtherThanFlIdle

SpecFilter == SpecFilterInit /\ [][FilterNext]_vars

\* the candidate has a resource_id and all the availability flags the intents
\* ask for
HasAllFlags(c) ==
    /\ c.resource_id # NoId
    /\ \A i \in DOMAIN field_intents :
          LET il == Lower(field_intents[i])
              key == IF il \in {w_phone, w_contact} THEN "has_phone"
                     ELSE IF il = w_email THEN "has_email"
                     ELSE ""
              flags == IF field_index_file.present /\ c.resource_id \in DOMAIN field_index_file.resources
                       THEN field_index_file.resources[c.resource_id]
                       ELSE IF GetResourceSchema(enterprise_schemas, c.resource_id) = <<>>
                            THEN NoFlags
                       ELSE GetResourceSchema(enterprise_schemas, c.resource_id)[1].field_availability
          IN  key \in DOMAIN flags => flags[key]

\* C7: a non-empty candidate list is never filtered to an empty one, and when no
\* candidate has all the requested availability flags the list comes back unchanged.
C7_GracefulDegradation ==
    \A r \in Range(filtered) :
        /\ fl_candidates # <<>> => r # <<>>
        /\ (\A i \in DOMAIN fl_candidates : ~HasAllFlags(fl_candidates[i]))
               => r = fl_candidates

\* C7 witness: intents that name a field, every candidate lacking it, and the
\* candidate list returned as it was
C7_Witness ==
    \E r \in Range(filtered) :
        /\ fl_candidates # <<>>
        /\ \E i \in DOMAIN field_intents : IntentKey(field_intents[i]) # ""
        /\ \E i \in DOMAIN fl_candidates : fl_candidates[i].resource_id # NoId
        /\ \A i \in DOMAIN fl_candidates : ~HasAllFlags(fl_candidates[i])
        /\ r = fl_candidates

(***************************************************************************)
(* _calculate_aggregates (src/datagov/server.py).  A cell is null, a JSON  *)
(* number or a string; numbers are counted in thousandths.  The values of  *)
(* the model are multiples of 1/8, which binary floating point adds and    *)
(* rounds exactly.  A record maps field ids to cells; a field is           *)
(* [id, type].                                                             *)
(***************************************************************************)
NullCell == [kind |-> "null", num |-> 0, str |-> <<>>]
NumCell(n) == [kind |-> "num", num |-> n, str |-> <<>>]
StrCell(t) == [kind |-> "str", num |-> 0, str |-> t]

DigitValue == [c \in Digits |->
    CASE c = "0" -> 0 [] c = "1" -> 1 [] c = "2" -> 2 [] c = "5" -> 5 [] c = "7" -> 7]

RECURSIVE DigitsValue(_)
\* the number a string of digits writes, 0 for the empty string
DigitsValue(ds) ==
    IF ds = <<>> THEN 0 ELSE 10 * DigitsValue(DropLast(ds, 1)) + DigitValue[ds[Len(ds)]]

\* s.replace(c, "")
Without(t, c) == LET keep(x) == x # c IN SelectSeq(t, keep)

\* float(t) for a string: [ok, finite, val], ok FALSE for ValueError; a sign, then
\* nan, inf, or digits with at most one point and up to three digits behind it
ParseFloat(t) ==
    LET signed == t # <<>> /\ t[1] \in {"-", "+"}
        body   == IF signed THEN Tail(t) ELSE t
        dots   == {i \in DOMAIN body : body[i] = "."}
        d      == IF dots = {} THEN Len(body) + 1 ELSE CHOOSE i \in dots : TRUE
        intp   == SubSeq(body, 1, d - 1)
        frac   == SubSeq(body, d + 1, Len(body))
        digits(x) == \A i \in DOMAIN x : x[i] \in Digits
        pad    == frac \o SubSeq(<<"0", "0", "0">>, 1, 3 - Len(frac))
        abs    == 1000 * DigitsValue(intp) + DigitsValue(pad)
    IN  IF Lower(body) \in {<<"n", "a", "n">>, <<"i", "n", "f">>}
        THEN [ok |-> TRUE, finite |-> FALSE, val |-> 0]
        ELSE IF Cardinality(dots) <= 1 /\ digits(intp) /\ digits(frac)
                /\ Len(intp) + Len(frac) >= 1 /\ Len(frac) <= 3
             THEN [ok |-> TRUE, finite |-> TRUE, val |-> IF signed /\ t[1] = "-" THEN -abs ELSE abs]
        ELSE [ok |-> FALSE, finite |-> TRUE, val |-> 0]

\* float(val) after the commas of a string are removed (lines 506-508)
CellFloat(cell) ==
    IF cell.kind = "num" THEN [ok |-> TRUE, finite |-> TRUE, val |-> cell.num]
    ELSE ParseFloat(Without(cell.str, ","))

\* str(val).replace(",", "").replace(".", "").replace("-", "").isdigit() (line 491);
\* str() of a number of the model writes digits, a point and a sign only
LooksNumeric(cell) ==
    IF cell.kind = "num" THEN TRUE
    ELSE IsDigit(Without(Without(Without(cell.str, ","), "."), "-"))

\* r.get(fid)
CellGet(r, fid) == IF fid \in DOMAIN r THEN r[fid] ELSE NullCell

w_int  == <<"i", "n", "t">>
w_text == <<"t", "e", "x", "t">>

\* the type names of line 485 among those the model's fields have
NumericTypes == {w_int}

\* records[:5] (line 489)
DetectionWindow == 5

\* whether the loop of lines 479-493 puts the field in numeric_fields
IsNumericField(recs, f) ==
    /\ f.id # "_id"
    /\ \/ Lower(f.type) \in NumericTypes
       \/ \E i \in DOMAIN Take(recs, DetectionWindow) :
             CellGet(recs[i], f.id).kind # "null" /\ LooksNumeric(CellGet(recs[i], f.id))

\* whether the cell of field fid of record r is added to the total (lines
\* 502-509): it is not None and float() accepts it
IsSummed(r, fid) == CellGet(r, fid).kind # "null" /\ CellFloat(CellGet(r, fid)).ok

\* the records whose cell of field fid is added to the total
Summed(recs, fid) == {i \in DOMAIN recs : IsSummed(recs[i], fid)}

RECURSIVE SumRange(_, _, _)
\* f[lo] + ... + f[hi]
SumRange(f, lo, hi) ==
    IF lo > hi THEN 0
    ELSE IF lo = hi THEN f[lo]
    ELSE SumRange(f, lo, (lo + hi) \div 2) + SumRange(f, (lo + hi) \div 2 + 1, hi)

\* round(total, 2) in thousandths: to the nearest hundredth, a tie to the even one
Round2(total) ==
    LET q == total \div 10
        r == total % 10
    IN  10 * (IF r < 5 THEN q ELSE IF r > 5 THEN q + 1 ELSE IF q % 2 = 0 THEN q ELSE q + 1)

\* int(total) if total == int(total) else round(total, 2) (line 515)
ReportedSum(total) == IF total % 1000 = 0 THEN total ELSE Round2(total)

\* _calculate_aggregates(records, fields): [raised, sums]; raised when int(total)
\* raises for a total that is nan or infinite
CalculateAggregates(recs, fields) ==
    LET numeric_fields == {fields[i].id : i \in {j \in DOMAIN fields : IsNumericField(recs, fields[j])}}
        float(i, fid) == CellFloat(CellGet(recs[i], fid))
        added(fid)  == [i \in DOMAIN recs |->
                           IF IsSummed(recs[i], fid) THEN float(i, fid).val ELSE 0]
        total(fid)  == SumRange(added(fid), 1, Len(recs))
        count(fid)  == Cardinality(Summed(recs, fid))
        finite(fid) == \A i \in Summed(recs, fid) : float(i, fid).finite
        reported    == {fid \in numeric_fields : count(fid) > 0}
    IN  IF recs = <<>> THEN [raised |-> FALSE, sums |-> [fid \in {} |-> 0]]
        ELSE IF \E fid \in reported : ~finite(fid)
             THEN [raised |-> TRUE, sums |-> [fid \in {} |-> 0]]
        ELSE [raised |-> FALSE,
              sums |-> [fid \in reported |->
                           [sum |-> ReportedSum(total(fid)), count |-> count(fid)]]]

(***************************************************************************)
(* SpecAgg: one call _calculate_aggregates(records, fields)                *)
(***************************************************************************)
MaxRecords == 2

CellPool ==
    {NullCell, NumCell(2000), NumCell(125), NumCell(-1500),
     StrCell(<<"1", ",", "0", "0", "0">>), StrCell(<<"0", ".", "2", "5">>),
     StrCell(<<"a", "b", "c">>), StrCell(<<"n", "a", "n">>)}

\* records with the columns _id and x
RecordPool == {[fid \in {"_id", "x"} |-> IF fid = "_id" THEN NumCell(1000) ELSE c] : c \in CellPool}

FieldLists ==
    {<<[id |-> "_id", type |-> w_int], [id |-> "x", type |-> w_int]>>,
     <<[id |-> "_id", type |-> w_int], [id |-> "x", type |-> w_text]>>,
     <<[id |-> "x", type |-> w_text], [id |-> "y", type |-> w_int]>>}

AggInit ==
    /\ ag_records \in ListsOf(RecordPool, MaxRecords)
    /\ ag_fields \in FieldLists
    /\ aggregated = <<>>

\* a call _calculate_aggregates(records, fields)
CallCalculateAggregates ==
    /\ aggregated = <<>>
    /\ aggregated' = <<CalculateAggregates(ag_records, ag_fields)>>
    /\ UNCHANGED <<ag_records, ag_fields>>
    /\ UNCHANGED notAgVars

AggNext == CallCalculateAggregates

SpecAggInit == SynLoaded /\ AggInit /\ OtherThanAgIdle

SpecAgg == SpecAggInit /\ [][AggNext]_vars

\* the cell holds a number: a JSON number, or a string that writes one
IsNumberCell(cell) ==
    \/ cell.kind = "num"
    \/ cell.kind = "str" /\ CellFloat(cell).ok /\ CellFloat(cell).finite

\* the arithmetic sum (in thousandths) and the number of the number cells of a field
ArithmeticSum(fid) ==
    Sum([i \in DOMAIN ag_records |->
            IF IsNumberCell(CellGet(ag_records[i], fid))
            THEN CellFloat(CellGet(ag_records[i], fid)).val ELSE 0])

NumberCount(fid) ==
    Cardinality({i \in DOMAIN ag_records : IsNumberCell(CellGet(ag_records[i], fid))})

\* C8: the call returns for every list of records, and for every field reported
\* the reported sum is the arithmetic sum of the field's numeric cells over all
\* records and the reported count is their number; null and non-numeric cells add
\* to neither.
C8_SumAndCount ==
    \A r \in Range(aggregated) :
        /\ ~r.raised
        /\ \A fid \in DOMAIN r.sums :
              /\ r.sums[fid].sum = ArithmeticSum(fid)
              /\ r.sums[fid].count = NumberCount(fid)



(***************************************************************************)
(* datagov_query(query) of server.py: the control flow of one call, from   *)
(* the validation of the query to the return, and the requests it sends to *)
(* the data API.  A result is kept by its kind; the parameters of a        *)
(* request (limit, offset, fields, q) and the formatting of the records    *)
(* are not part of this machine.                                           *)
(***************************************************************************)
w_JSON == <<"J", "S", "O", "N">>
w_XLSX == <<"X", "L", "S", "X">>

\* FIELD_INTENT_MAPPING (query_builder.py lines 988-1031): the entries of the
\* intents above, each with its patterns in the alphabet of the model, in the
\* order of the code
FIELD_INTENT_MAPPING ==
    [intent \in {w_address, w_phone, w_phones, he_telefon, w_contact, w_email, w_city,
                 w_date} |->
        IF intent = w_address THEN <<w_address, w_location>>
        ELSE IF intent \in {w_phone, w_phones, he_telefon} THEN <<he_telefon, w_phone, w_tel>>
        ELSE IF intent = w_contact THEN <<w_contact, w_email, he_telefon, w_phone>>
        ELSE IF intent = w_email THEN <<w_email, w_mail>>
        ELSE IF intent = w_city THEN <<w_city>>
        ELSE <<w_date>>]

\* extract_field_intents(query), before list(set(...)) gives the intents an order
ExtractFieldIntents(q) ==
    {intent \in DOMAIN FIELD_INTENT_MAPPING :
        \/ Contains(Lower(q), intent)
        \/ \E pattern \in Range(FIELD_INTENT_MAPPING[intent]) : Contains(Lower(q), pattern)}

\* the lists list(S) can be
ListsOfSet(S) == {s \in [1..Cardinality(S) -> S] : Range(s) = S}

\* excluded_fields of match_fields_to_schema (lines 1151-1152), the names in the
\* alphabet of the model
ExcludedFields == {<<"x">>, <<"y">>, <<"i", "d">>, <<"_", "i", "d">>, <<"l", "a", "t">>}

\* schema_lower.get(pattern_lower) (line 1148): the last field of that lower case
ExactField(fields, pattern_lower) ==
    LET at == {i \in DOMAIN fields : Lower(fields[i]) = pattern_lower}
    IN  IF at = {} THEN <<>> ELSE <<fields[CHOOSE i \in at : \A j \in at : j <= i]>>

\* the partial match of one pattern (lines 1167-1177): the first field that
\* overlaps it, <<>> when there is none
PartialField(fields, pattern_lower) ==
    LET at == {i \in DOMAIN fields :
                  /\ Lower(fields[i]) \notin ExcludedFields
                  /\ Len(fields[i]) >= 3
                  /\ Len(pattern_lower) >= 3
                  /\ \/ Contains(Lower(fields[i]), pattern_lower)
                     \/ Contains(pattern_lower, Lower(fields[i]))}
    IN  IF at = {} THEN <<>> ELSE <<fields[CHOOSE i \in at : \A j \in at : i <= j]>>

\* one pattern against the schema (lines 1158-1177): the exact match unless the
\* field is excluded, then the partial match
PatternField(fields, pattern) ==
    LET exact == ExactField(fields, Lower(pattern))
    IN  IF exact # <<>> /\ Lower(exact[1]) \notin ExcludedFields THEN exact
        ELSE PartialField(fields, Lower(pattern))

RECURSIVE FirstPatternField(_, _, _)
\* the field of the first pattern from i on that matches one, <<>> for none
FirstPatternField(fields, patterns, i) ==
    IF i > Len(patterns) THEN <<>>
    ELSE IF PatternField(fields, patterns[i]) # <<>> THEN PatternField(fields, patterns[i])
    ELSE FirstPatternField(fields, patterns, i + 1)

\* what match_fields_to_schema finds for one intent: <<field>> or <<>>
IntentField(fields, intent) ==
    FirstPatternField(fields,
                      IF intent \in DOMAIN FIELD_INTENT_MAPPING
                      THEN FIELD_INTENT_MAPPING[intent] ELSE <<intent>>, 1)

\* match_fields_to_schema(intents, schema_fields): matched_fields, a list(set(...))
\* kept as the set, and missing_intents
MatchFieldsToSchema(intents, fields) ==
    [matched_fields  |-> UNION {Range(IntentField(fields, intents[i])) : i \in DOMAIN intents},
     missing_intents |-> SelectSeq(intents, LAMBDA intent : IntentField(fields, intent) = <<>>)]

RECURSIVE FirstSemantic(_, _, _)
\* the name of the first field from i on of the semantic type, <<>> for None
FirstSemantic(fields, semantic_type, i) ==
    IF i > Len(fields) THEN <<>>
    ELSE IF fields[i].semantic = semantic_type THEN <<fields[i].name>>
    ELSE FirstSemantic(fields, semantic_type, i + 1)

\* get_semantic_field_name(resource_id, semantic_type) (lines 469-487)
GetSemanticFieldName(file, rid, semantic_type) ==
    IF GetResourceSchema(file, rid) = <<>> THEN <<>>
    ELSE FirstSemantic(GetResourceSchema(file, rid)[1].fields, semantic_type, 1)

\* field_names of a precomputed schema (server.py lines 237-243)
FieldNames(fields) ==
    LET names == [i \in DOMAIN fields |-> fields[i].name]
    IN  SelectSeq(names, LAMBDA name : name # <<>> /\ name # <<"_", "i", "d">>)

\* the fields matched to one intent (lines 786-797): the semantic match first,
\* then the patterns; <<>> when the intent is missing
FieldOfIntent(file, rid, fields, intent) ==
    LET semantic_name == GetSemanticFieldName(file, rid, intent)
    IN  IF semantic_name # <<>> /\ semantic_name[1] \in Range(fields) THEN semantic_name
        ELSE LET field_match_result == MatchFieldsToSchema(<<intent>>, fields)
             IN  IF field_match_result.matched_fields = {} THEN <<>>
                 ELSE <<CHOOSE f \in field_match_result.matched_fields : TRUE>>

RECURSIVE MatchedFields(_, _, _, _, _)
\* matched_fields after the intents from i on (lines 781-797)
MatchedFields(file, rid, fields, intents, i) ==
    IF i > Len(intents) THEN <<>>
    ELSE FieldOfIntent(file, rid, fields, intents[i])
             \o MatchedFields(file, rid, fields, intents, i + 1)

\* missing_intents (lines 782-797)
MissingIntents(file, rid, fields, intents) ==
    SelectSeq(intents, LAMBDA intent : FieldOfIntent(file, rid, fields, intent) = <<>>)

\* get_category_suggestion(query) returns a suggestion: no meaningful token
IsTooVague(q) ==
    LET tokens == TokenizeHebrew(q, FALSE)
    IN  ~\E i \in DOMAIN tokens :
            Len(tokens[i]) > 2 /\ Lower(tokens[i]) \notin HEBREW_STOPWORDS

\* not query or not query.strip() (line 625)
IsBlank(q) == \A i \in DOMAIN q : q[i] = " "

\* below this score of the top candidate the query is rephrased (line 664);
\* in thousandths
MIN_CONFIDENCE == 350

\* the attempts after the first one (line 828)
max_retries == 2

\* candidates[0].get("score", 0) of a result, 0 for no candidates (lines 667-668)
TopScore(r) == IF r.candidates = <<>> THEN 0 ELSE r.candidates[1].score

\* a mutant of LowConfidence: only the absence of candidates counts
LowConfidenceNoCandidates(r) == r.candidates = <<>>

\* the final check with the threshold of the resources in place of MIN_CONFIDENCE
LowConfidenceBelowRetention(r) == r.candidates = <<>> \/ TopScore(r) < 100

\* not candidates or score < MIN_CONFIDENCE (lines 671, 693)
LowConfidence(r) == r.candidates = <<>> \/ TopScore(r) < MIN_CONFIDENCE

\* the condition of line 680: the alternative has matched
AltMatches(r) == r.candidates # <<>> /\ r.candidates[1].score >= MIN_CONFIDENCE

\* a mutant of StopsAtMatch: the loop goes on after a match
StopsAtMatchNever(matched) == FALSE

\* whether the loop over the alternatives ends here (the break of line 685)
StopsAtMatch(matched) == matched

RECURSIVE SelectBestFrom(_, _)
\* the first candidate from i on with a datastore format and score > 0.1,
\* <<>> when there is none (lines 729-734)
SelectBestFrom(cands, i) ==
    IF i > Len(cands) THEN <<>>
    ELSE IF Upper(cands[i].format) \in {w_CSV, w_JSON, w_XLSX} /\ cands[i].score > 100
         THEN <<cands[i]>>
    ELSE SelectBestFrom(cands, i + 1)

\* a mutant of SelectBest: the first candidate, whatever its format
SelectBestTop(cands) == cands[1]

\* best (lines 729-737)
SelectBest(cands) ==
    IF SelectBestFrom(cands, 1) # <<>> THEN SelectBestFrom(cands, 1)[1] ELSE cands[1]

\* a mutant of RetryAllowed: one more attempt
RetryAllowedOnceMore(n) == n < max_retries + 2

\* range(max_retries + 1) has an iteration after n of them (line 831)
RetryAllowed(n) == n < max_retries + 1


\* the characters of the alphabet that the regular expressions count as \W
NonWordChars == {" ", ",", ".", "-"}

\* re.search(r'\bword\b', text) for a word of \w characters
SearchWord(text, word) ==
    \E i \in 0..(Len(text) - Len(word)) :
        /\ SubSeq(text, i + 1, i + Len(word)) = word
        /\ i = 0 \/ text[i] \in NonWordChars
        /\ i + Len(word) = Len(text) \/ text[i + Len(word) + 1] \in NonWordChars

w_total == <<"t", "o", "t", "a", "l">>
w_count == <<"c", "o", "u", "n", "t">>

\* _is_count_query(query) (server.py lines 449-468), the patterns in the
\* alphabet of the model
IsCountQuery(q) == \E word \in {w_total, w_count} : SearchWord(Lower(q), word)

\* the limit of a count query and the largest limit of any query (lines 638, 640)
LimitCap == 100

Min2(a, b) == IF a < b THEN a ELSE b
Max2(a, b) == IF a > b THEN a ELSE b

\* the arguments limit and offset of the call: the defaults (20 and 0), and for
\* a count query also a page of 5 records after the first 2
CallerArgs(q) ==
    IF IsCountQuery(q)
    THEN {[limit |-> 20, offset |-> 0], [limit |-> 5, offset |-> 2]}
    ELSE {[limit |-> 20, offset |-> 0]}

\* the numbers of records the selected resource may hold
Totals == {0, 3, 101}

\* the fields of the resource in the datastore: _id and a numeric column
DatastoreFields == <<[id |-> "_id", type |-> w_int], [id |-> "x", type |-> w_int]>>

\* what the data API returns for limit and offset from a resource of total
\* records, each with 1 in the column x: the records offset+1 .. offset+limit
DatastoreSearch(total, lim, off) ==
    [k \in 1..Min2(lim, Max2(0, total - off)) |->
        [fid \in {"_id", "x"} |-> IF fid = "_id" THEN NumCell(1000 * (off + k))
                                  ELSE NumCell(1000)]]

\* aggregates = None
NoSums == [fid \in {} |-> 0]

(***************************************************************************)
(* SpecQuery: one call datagov_query(query).  The scoring of a query may   *)
(* raise, and the data API answers a request in any of the ways the code   *)
(* tells apart.                                                            *)
(***************************************************************************)
\* the queries of SpecSuggest, one of blanks only, one of a stop word only, one
\* of a two-letter word that has synonyms, one that asks for the e-mail and one
\* that asks for a total
QueryQueries ==
    SuggestQueries \cup {<<" ">>, w_of, he_mas, Join(<<w_tax, w_email>>),
                         Join(<<w_total, w_tax>>)}

\* a dataset titled by the Hebrew word the query "the taxes" is normalized to
DsMisim ==
    [id |-> "d4", title |-> he_misim, name |-> <<>>, tags |-> <<>>, organization |-> <<>>,
     resources |-> <<[id |-> "r5", title |-> <<>>, name |-> <<>>, format |-> w_PDF]>>]

\* a dataset about "tax" whose only resource has no id
DsUnlisted ==
    [id |-> "d5", title |-> w_tax, name |-> <<>>, tags |-> <<>>, organization |-> <<>>,
     resources |-> <<[id |-> NoId, title |-> w_tax, name |-> <<>>, format |-> w_PDF]>>]

\* the resource maps of up to n datasets, and the one of the dataset above
ResourceMaps(n) ==
    UNION {[1..k -> DatasetPool \cup {DsMisim}] : k \in 0..n} \cup {<<DsUnlisted>>}

\* the answers to the request of the fetch loop: status 200 with success true or
\* false, status 403, status 404, and any other status or exception
Responses == {"ok", "unsuccessful", "forbidden", "not_found", "failed"}

\* the ids of the fields of a schema the data API answers with
ApiSchemas ==
    {<<<<"_", "i", "d">>>>,
     <<<<"_", "i", "d">>, w_city>>,
     <<<<"_", "i", "d">>, w_Phone, w_city>>}

\* what _fetch_resource_schema(rid) can return (server.py lines 223-282): the
\* field names, and the request it has sent to get them
FetchedSchemas(file, rid) ==
    IF GetResourceSchema(file, rid) # <<>>
    THEN {[field_names |-> FieldNames(GetResourceSchema(file, rid)[1].fields),
           request |-> <<>>]}
    ELSE {[field_names |-> <<>>,
           request |-> <<[kind |-> "schema", resource_id |-> rid,
                         response |-> "failed"]>>]}
         \cup {[field_names |-> SelectSeq(ids, LAMBDA id : id # <<"_", "i", "d">>),
                 request |-> <<[kind |-> "schema", resource_id |-> rid,
                             response |-> "ok"]>>] : ids \in ApiSchemas}

QueryInit ==
    /\ query \in QueryQueries
    /\ locOrder \in LocOrders
    /\ map_data \in ResourceMaps(MaxDatasets)
    /\ resources_map_loaded \in (IF map_data = <<>> THEN BOOLEAN ELSE {TRUE})
    /\ enterprise_schemas \in SchemaFiles
    /\ field_index_file \in FieldIndexFiles
    /\ pc = "start"
    /\ dq_candidates = <<>>
    /\ alternatives = <<>>
    /\ scored = <<>>
    /\ used_rephrase = <<>>
    /\ best = <<>>
    /\ attempt = 0
    /\ upstream = <<>>
    /\ outcome = ""
    /\ initial_score = 0
    /\ response_data = <<>>
    /\ dq_field_intents = <<>>
    /\ schema_fields = <<>>
    /\ selected_fields = <<>>
    /\ missing_fields_warning = <<>>
    /\ dq_limit = 0
    /\ dq_offset = 0

\* lines 618-646: the validation of the query and of the resource map
ValidateQuery ==
    /\ pc = "start"
    /\ IF IsBlank(query)
       THEN /\ outcome' = "query_required" /\ pc' = "done"
            /\ UNCHANGED <<dq_limit, dq_offset>>
       ELSE /\ \E args \in CallerArgs(query) :
                  /\ dq_limit' = IF IsCountQuery(query) THEN LimitCap
                                 ELSE Min2(Max2(1, args.limit), LimitCap)
                  /\ dq_offset' = Max2(0, args.offset)
            /\ IF ~resources_map_loaded
               THEN outcome' = "map_not_loaded" /\ pc' = "done"
               ELSE outcome' = "" /\ pc' = "score"
    /\ UNCHANGED <<resources_map_loaded, dq_candidates, alternatives, scored, used_rephrase,
                   best, attempt, upstream, initial_score, response_data,
                   dq_field_intents, schema_fields, selected_fields, missing_fields_warning>>
    /\ UNCHANGED notDqVars

\* suggest_for_query(query, ...) raised (lines 650-659)
AfterQueryRaised ==
    /\ outcome' = "processing_error"
    /\ pc' = "done"
    /\ UNCHANGED <<dq_candidates, alternatives, scored, used_rephrase, initial_score>>

\* suggest_for_query(query, ...) returned r (lines 664-675): the fallback is
\* entered on low confidence, with the alternatives of rephrase_query(query)
AfterQuery(r) ==
    /\ dq_candidates' = <<r>>
    /\ initial_score' = TopScore(r)
    /\ IF LowConfidence(r)
       THEN \E alts \in RephraseQuery(index, query) :
               /\ alternatives' = alts
               /\ pc' = IF alts = <<>> THEN "check" ELSE "fallback"
       ELSE /\ alternatives' = <<>>
            /\ pc' = "check"
    /\ UNCHANGED <<scored, used_rephrase, outcome>>

\* the rest of the iteration of the loop over the alternatives (lines 678-687),
\* suggest_for_query(alt_query, ...) having returned <<r>> or raised (<<>>)
AfterAlternative(alt_query, returned) ==
    /\ scored' = Append(scored, [alt_query |-> alt_query, returned |-> returned])
    /\ IF returned # <<>> /\ AltMatches(returned[1])
       THEN /\ dq_candidates' = returned
            /\ used_rephrase' = <<alt_query>>
       ELSE UNCHANGED <<dq_candidates, used_rephrase>>
    /\ pc' = IF \/ StopsAtMatch(returned # <<>> /\ AltMatches(returned[1]))
                \/ Len(scored) + 1 = Len(alternatives)
             THEN "check" ELSE "fallback"
    /\ UNCHANGED <<alternatives, outcome, initial_score>>

\* one call suggest_for_query(qs, RESOURCES_MAP, limit=5), of the query (line 649)
\* or of the next alternative (line 677), and what follows it up to the next call
ScoreNext ==
    /\ pc \in {"score", "fallback"}
    /\ \E qs \in {IF pc = "score" THEN query ELSE alternatives[Len(scored) + 1]} :
          \/ IF pc = "score" THEN AfterQueryRaised ELSE AfterAlternative(qs, <<>>)
          \/ \E r \in {SuggestForQuery(index, raw, locOrder, enterprise_schemas,
                                       qs, map_data, 5)} :
                IF pc = "score" THEN AfterQuery(r) ELSE AfterAlternative(qs, <<r>>)
    /\ UNCHANGED <<resources_map_loaded, best, attempt, upstream, response_data,
                   dq_field_intents, schema_fields, selected_fields, missing_fields_warning,
                   dq_limit, dq_offset>>
    /\ UNCHANGED notDqVars

\* lines 689-741: the final check, the filter by field availability and the
\* selection of the resource
SelectResource ==
    /\ pc = "check"
    /\ \E r \in {dq_candidates[1]} :
          IF LowConfidence(r)
          THEN /\ outcome' = IF IsTooVague(query) THEN "query_too_vague" ELSE "not_in_datagov"
               /\ response_data' = IF IsTooVague(query) THEN <<>>
                                   ELSE <<[decomposition |-> r.decomposition]>>
               /\ pc' = "done"
               /\ UNCHANGED <<dq_candidates, best, dq_field_intents>>
          ELSE \E intents \in ListsOfSet(ExtractFieldIntents(query)) :
               \E cands \in {IF intents # <<>>
                             THEN FilterByFieldAvailability(field_index_file,
                                      enterprise_schemas, r.candidates, intents)
                             ELSE r.candidates} :
                  /\ dq_candidates' = <<[r EXCEPT !.candidates = cands]>>
                  /\ best' = <<SelectBest(cands)>>
                  /\ dq_field_intents' = intents
                  /\ IF HasId(SelectBest(cands).resource_id)
                     THEN pc' = "schema" /\ outcome' = ""
                     ELSE pc' = "done" /\ outcome' = "no_resource_id"
                  /\ UNCHANGED response_data
    /\ UNCHANGED <<resources_map_loaded, alternatives, scored, used_rephrase, attempt,
                   upstream, initial_score, schema_fields, selected_fields,
                   missing_fields_warning, dq_limit, dq_offset>>
    /\ UNCHANGED notDqVars

\* lines 774-813: _fetch_resource_schema(resource_id), the precomputed schema or
\* one request to the data API, and the validation of the requested fields
FetchResourceSchema ==
    /\ pc = "schema"
    /\ \E rid \in {best[1].resource_id} :
       \E fetched \in FetchedSchemas(enterprise_schemas, rid) :
       \E names \in {fetched.field_names} :
          /\ upstream' = upstream \o fetched.request
          /\ schema_fields' = names
          /\ IF dq_field_intents # <<>> /\ names # <<>>
             THEN \E matched_fields \in {MatchedFields(enterprise_schemas, rid, names,
                                                       dq_field_intents, 1)} :
                  \E missing_intents \in {MissingIntents(enterprise_schemas, rid, names,
                                                         dq_field_intents)} :
                     /\ missing_fields_warning' =
                            IF missing_intents # <<>>
                            THEN <<[missing_intents  |-> missing_intents,
                                    available_fields |-> names,
                                    matched_fields   |-> matched_fields]>>
                            ELSE <<>>
                     /\ selected_fields' = matched_fields
             ELSE /\ missing_fields_warning' = <<>>
                  /\ selected_fields' = <<>>
    /\ pc' = "fetch"
    /\ UNCHANGED <<resources_map_loaded, dq_candidates, alternatives, scored, used_rephrase,
                   best, attempt, outcome, initial_score, response_data, dq_field_intents,
                   dq_limit, dq_offset>>
    /\ UNCHANGED notDqVars

\* one iteration of the fetch loop (lines 831-892) and, when it is the last,
\* the rest of the call (lines 894-966); to a request that succeeds the data API
\* answers with the records of the window the request names
FetchRecords ==
    /\ pc = "fetch"
    /\ RetryAllowed(attempt)
    /\ \E resp \in Responses :
          /\ upstream' = Append(upstream, [kind |-> "records", response |-> resp,
                                           resource_id |-> best[1].resource_id,
                                           fields |-> selected_fields,
                                           limit |-> dq_limit, offset |-> dq_offset])
          /\ IF resp \in {"forbidden", "failed"}
             THEN /\ attempt' = attempt + 1
                  /\ IF RetryAllowed(attempt + 1)
                     THEN pc' = "fetch" /\ outcome' = ""
                     ELSE pc' = "done" /\ outcome' = "fetch_failed"
                  /\ UNCHANGED response_data
             ELSE /\ attempt' = attempt
                  /\ pc' = "done"
                  /\ outcome' = IF resp = "not_found" THEN "resource_not_found"
                                ELSE IF resp = "unsuccessful" THEN "api_error"
                                ELSE "data"
                  /\ IF resp # "ok" THEN response_data' = <<>>
                     ELSE \E total \in Totals :
                          \E records \in {DatastoreSearch(total, dq_limit, dq_offset)} :
                          \E aggregates \in {IF IsCountQuery(query) /\ records # <<>>
                                              THEN CalculateAggregates(records, DatastoreFields).sums
                                              ELSE NoSums} :
                             response_data' =
                                <<[field_availability     |-> missing_fields_warning,
                                   schema_fields          |-> schema_fields,
                                   field_intents_detected |-> dq_field_intents,
                                   rephrased_query        |-> used_rephrase,
                                   total_records          |-> total,
                                   returned               |-> Len(records),
                                   offset                 |-> dq_offset,
                                   has_more               |-> dq_offset + Len(records) < total,
                                   is_count_query         |-> IsCountQuery(query),
                                   summary_totals         |-> aggregates]>>
    /\ UNCHANGED <<resources_map_loaded, dq_candidates, alternatives, scored, used_rephrase,
                   best, initial_score, dq_field_intents, schema_fields, selected_fields,
                   missing_fields_warning, dq_limit, dq_offset>>
    /\ UNCHANGED notDqVars

QueryNext ==
    \/ ValidateQuery
    \/ ScoreNext
    \/ SelectResource
    \/ FetchResourceSchema
    \/ FetchRecords

SpecQueryInit == SynLoaded /\ QueryInit /\ OtherThanDqIdle

SpecQuery == SpecQueryInit /\ [][QueryNext]_vars

\* the entry of the log of scored alternatives has a top candidate of score >= 0.35
Cleared(e) ==
    /\ e.returned # <<>>
    /\ e.returned[1].candidates # <<>>
    /\ e.returned[1].candidates[1].score >= 350

\* C9: the alternatives of the rephrasing fallback are scored one at a time in
\* the order rephrase_query returned them; the loop stops at the first one whose
\* top candidate scores at least 0.35, the result of that alternative replaces
\* the result of the query, and no later alternative is scored.
C9_StopsAtFirstMatch ==
    /\ Len(scored) <= Len(alternatives)
    /\ \A i \in DOMAIN scored :
          /\ scored[i].alt_query = alternatives[i]
          /\ Cleared(scored[i]) =>
                /\ i = Len(scored)
                /\ pc # "fallback"
                /\ used_rephrase = <<alternatives[i]>>
                /\ pc = "check" => dq_candidates = scored[i].returned
    /\ (\A i \in DOMAIN scored : ~Cleared(scored[i])) => used_rephrase = <<>>

\* C9 witness: the loop has stopped at an alternative that matched, with a later
\* alternative left unscored
C9_Witness ==
    /\ pc = "check"
    /\ scored # <<>>
    /\ Cleared(scored[Len(scored)])
    /\ Len(scored) < Len(alternatives)

\* the requests of the fetch loop, in the order they were sent
RecordRequests == SelectSeq(upstream, LAMBDA u : u.kind = "records")

\* C10: the record fetch is attempted at most 3 times, the first attempt and at
\* most 2 retries, each retry after a failed attempt; when the last attempt fails
\* too, the call ends with an error result and sends no further request.
C10_BoundedRetries ==
    /\ Len(RecordRequests) <= 3
    /\ \A i \in DOMAIN RecordRequests :
          i < Len(RecordRequests) => RecordRequests[i].response \in {"forbidden", "failed"}
    /\ (Len(RecordRequests) = 3 /\ RecordRequests[3].response \in {"forbidden", "failed"})
          => pc = "done" /\ outcome = "fetch_failed"
    /\ pc = "done" => ~ENABLED FetchRecords

\* C10 witness: the third attempt has failed and the call has returned the error
C10_Witness ==
    /\ Len(RecordRequests) = 3
    /\ RecordRequests[3].response \in {"forbidden", "failed"}
    /\ outcome = "fetch_failed"


\* the call has passed the validation and the scoring of the query has not raised
Scorable ==
    /\ ~IsBlank(query)
    /\ resources_map_loaded
    /\ outcome # "processing_error"

\* C11: for a query that is too vague (no meaningful token), no alternative of
\* rephrase_query is generated or scored, and the call returns the vague-query
\* signal, never a data result and never the no-match signal.
C11_VagueWithoutRephrasing ==
    (Scorable /\ IsTooVague(query)) =>
        /\ alternatives = <<>>
        /\ scored = <<>>
        /\ pc \notin {"schema", "fetch"}
        /\ pc = "done" => outcome = "query_too_vague"


\* neither the query nor any alternative has given a top candidate of score >= 0.35
NothingCleared ==
    /\ dq_candidates # <<>>
    /\ initial_score < 350
    /\ \A i \in DOMAIN scored : ~Cleared(scored[i])

\* C12: when subject tokens are present, the query is not too vague, and neither
\* the query nor any rephrased alternative gives a top candidate of score >= 0.35,
\* the call returns the "not found" result with the decomposition of the query
\* itself attached, also when the scoring of an alternative has raised.
C12_NotFoundWithDecomposition ==
    (/\ pc \in {"check", "schema", "fetch", "done"}
     /\ Scorable
     /\ NothingCleared
     /\ ~IsTooVague(query)
     /\ dq_candidates[1].decomposition.subject_tokens # <<>>)
    => /\ pc \in {"check", "done"}
       /\ pc = "done" =>
             /\ outcome = "not_in_datagov"
             /\ response_data # <<>>
             /\ \E d \in {DecomposeQuery(index, locOrder, query)} :
                \E a \in {response_data[1].decomposition} :
                   /\ a.subject_tokens = d.subject_tokens
                   /\ a.location_tokens = d.location_tokens
                   /\ a.all_tokens = d.all_tokens
                   /\ a.expanded_subjects \subseteq d.expanded_subjects
                   /\ \/ a.expanded_subjects = d.expanded_subjects
                      \/ Cardinality(a.expanded_subjects) = 10

\* C12 witness: the "not found" result is returned after the scoring of an
\* alternative raised and another alternative stayed below 0.35
C12_Witness ==
    /\ pc = "done"
    /\ outcome = "not_in_datagov"
    /\ NothingCleared
    /\ response_data # <<>>
    /\ response_data[1].decomposition.subject_tokens # <<>>
    /\ \E i \in DOMAIN scored : scored[i].returned = <<>>
    /\ \E i \in DOMAIN scored : scored[i].returned # <<>>


\* the call has chosen a resource and has gone through the validation of the
\* requested fields against a schema it has obtained
FieldsValidated ==
    /\ pc \in {"fetch", "done"}
    /\ best # <<>>
    /\ HasId(best[1].resource_id)
    /\ \A i \in DOMAIN upstream :
          upstream[i].kind = "schema" => upstream[i].response = "ok"

\* the requested categories that match no field of the schema of the chosen
\* resource, neither by semantic tag nor by pattern
Mismatched ==
    MissingIntents(enterprise_schemas, best[1].resource_id, schema_fields,
                   dq_field_intents)

\* C13: when a requested field category matches no field of the schema of the
\* chosen resource, the call still performs the record fetch, selecting the
\* fields that did match, and the data it returns carries a field-availability
\* warning that names the missing categories.
C13_FieldMismatchNonFatal ==
    (FieldsValidated /\ Mismatched # <<>>) =>
        /\ pc = "done" => RecordRequests # <<>>
        /\ \A i \in DOMAIN RecordRequests :
              RecordRequests[i].fields =
                  MatchedFields(enterprise_schemas, best[1].resource_id, schema_fields,
                                dq_field_intents, 1)
        /\ (pc = "done" /\ RecordRequests[Len(RecordRequests)].response = "ok") =>
              /\ outcome = "data"
              /\ response_data # <<>>
              /\ response_data[1].field_availability # <<>>
              /\ response_data[1].field_availability[1].missing_intents = Mismatched


(***************************************************************************)
(* SpecLookup: the lookups of the precomputed data, called one after the   *)
(* other in any order, over a schema file that may be absent, unreadable   *)
(* or hold a dataset with a null where a string or a list belongs.         *)
(***************************************************************************)
MaxLookups == 3

\* what can be wrong with the file: nothing; it is not JSON; its last dataset
\* has "title": null; its last dataset has "resources": null
Damages(file) ==
    IF ~file.present THEN {"none"}
    ELSE IF file.datasets = <<>> THEN {"none", "invalid_json"}
    ELSE {"none", "invalid_json", "null_title", "null_resources"}

\* the file up to its last dataset
BeforeLast(file) ==
    [file EXCEPT !.datasets = SubSeq(file.datasets, 1, Len(file.datasets) - 1)]

\* the globals of query_builder.py lines 93-95 and 150-152 as one record
Globals ==
    [schemas_loaded |-> schemas_loaded, schemas_cache |-> schemas_cache,
     schema_index |-> schema_index, keyword_index_loaded |-> keyword_index_loaded,
     keyword_to_resources |-> keyword_to_resources,
     category_to_resources |-> category_to_resources]

\* the keys under which _load_keyword_index files one dataset in
\* _category_to_resources (lines 199-203)
CategoryKeys(ds) == [i \in 1..Len(ds.categories) |-> Lower(ds.categories[i])]

RECURSIVE CategoryBucketFrom(_, _, _)
\* the bucket of key in _category_to_resources after the datasets i.. of the file
CategoryBucketFrom(dss, key, i) ==
    IF i > Len(dss) THEN <<>>
    ELSE LET resource_ids == SelectSeq(dss[i].resources, HasId)
         IN  Repeat(resource_ids, Count(CategoryKeys(dss[i]), key))
                 \o CategoryBucketFrom(dss, key, i + 1)

\* _category_to_resources once _load_keyword_index has run
CategoryToResources(file) ==
    IF ~file.present THEN [k \in {} |-> <<>>]
    ELSE LET dss  == file.datasets
             keys == UNION {IF SelectSeq(dss[i].resources, HasId) = <<>> THEN {}
                            ELSE Range(CategoryKeys(dss[i])) : i \in DOMAIN dss}
         IN  [k \in keys |-> CategoryBucketFrom(dss, k, 1)]

\* _load_enterprise_schemas() (lines 98-141) from the globals g: the globals
\* after it and what it returns, <<>> for None.  An exception inside the try is
\* caught: a file that is not JSON leaves every global but the flag alone, and
\* "resources": null stops the loop at that dataset, after _enterprise_schemas
\* was assigned.
LoadEnterpriseSchemas(file, damage, g) ==
    IF g.schemas_loaded THEN [g |-> g, ret |-> g.schemas_cache]
    ELSE IF ~file.present \/ damage = "invalid_json"
         THEN [g |-> [g EXCEPT !.schemas_loaded = TRUE], ret |-> <<>>]
    ELSE IF damage = "null_resources"
         THEN [g |-> [g EXCEPT !.schemas_loaded = TRUE, !.schemas_cache = <<file>>,
                               !.schema_index = <<EnterpriseSchemaIndex(BeforeLast(file))>>],
               ret |-> <<>>]
    ELSE [g |-> [g EXCEPT !.schemas_loaded = TRUE, !.schemas_cache = <<file>>,
                          !.schema_index = <<EnterpriseSchemaIndex(file)>>],
          ret |-> <<file>>]

\* _load_keyword_index() (lines 156-210) from the globals g: the globals after
\* it and whether it raised.  Nothing catches the exception of title.lower() or
\* of the iteration over the resources of a dataset.
LoadKeywordIndex(file, damage, g) ==
    IF g.keyword_index_loaded THEN [g |-> g, raised |-> FALSE]
    ELSE LET g1 == [g EXCEPT !.keyword_index_loaded = TRUE,
                             !.keyword_to_resources = <<[k \in {} |-> <<>>]>>,
                             !.category_to_resources = <<[k \in {} |-> <<>>]>>]
             ld == LoadEnterpriseSchemas(file, damage, g1)
         IN  IF ld.ret = <<>> THEN [g |-> ld.g, raised |-> FALSE]
             ELSE IF damage \in {"null_title", "null_resources"}
                  THEN [g |-> [ld.g EXCEPT
                                 !.keyword_to_resources =
                                     <<KeywordToResources(BeforeLast(file))>>,
                                 !.category_to_resources =
                                     <<CategoryToResources(BeforeLast(file))>>],
                        raised |-> TRUE]
             ELSE [g |-> [ld.g EXCEPT
                            !.keyword_to_resources = <<KeywordToResources(file)>>,
                            !.category_to_resources = <<CategoryToResources(file)>>],
                   raised |-> FALSE]

\* `if not d: return []` and d.get(key.lower(), []) of lines 224-226 and 240-242
DictGet(d, key) ==
    IF d = <<>> \/ DOMAIN d[1] = {} THEN <<>> ELSE BucketGet(d[1], Lower(key))

\* get_resources_by_keyword(keyword) (lines 213-226)
GetResourcesByKeyword(file, damage, g, key) ==
    LET ld == LoadKeywordIndex(file, damage, g)
    IN  [g |-> ld.g, raised |-> ld.raised,
         result |-> IF ld.raised THEN <<>> ELSE DictGet(ld.g.keyword_to_resources, key)]

\* get_resources_by_category(category) (lines 229-242)
GetResourcesByCategory(file, damage, g, key) ==
    LET ld == LoadKeywordIndex(file, damage, g)
    IN  [g |-> ld.g, raised |-> ld.raised,
         result |-> IF ld.raised THEN <<>> ELSE DictGet(ld.g.category_to_resources, key)]

\* get_resource_schema(resource_id) (lines 350-358): <<>> for None
GetResourceSchemaOf(file, damage, g, rid) ==
    LET ld == LoadEnterpriseSchemas(file, damage, g)
    IN  [g |-> ld.g, raised |-> FALSE,
         result |-> IF ld.g.schema_index = <<>> THEN <<>>
                    ELSE IF rid \in DOMAIN ld.g.schema_index[1]
                         THEN <<ld.g.schema_index[1][rid]>> ELSE <<>>]

LookupKeywords == {w_haifa, w_Tax, w_color}
LookupCategories == {w_zoo, w_color}
LookupIds == {"r1", "r9"}
LookupTerms == {w_Tax, w_color}

LookupInit ==
    /\ enterprise_schemas \in SchemaFiles
    /\ schemas_damage \in Damages(enterprise_schemas)
    /\ schemas_loaded = FALSE
    /\ schemas_cache = <<>>
    /\ schema_index = <<>>
    /\ keyword_index_loaded = FALSE
    /\ keyword_to_resources = <<>>
    /\ category_to_resources = <<>>
    /\ lk_log = <<>>
    /\ threads = <<>>

\* the call has returned or raised as r says: the globals and the log after it
Returned(fn, key, r) ==
    /\ schemas_loaded' = r.g.schemas_loaded
    /\ schemas_cache' = r.g.schemas_cache
    /\ schema_index' = r.g.schema_index
    /\ keyword_index_loaded' = r.g.keyword_index_loaded
    /\ keyword_to_resources' = r.g.keyword_to_resources
    /\ category_to_resources' = r.g.category_to_resources
    /\ lk_log' = Append(lk_log, [fn |-> fn, key |-> key, raised |-> r.raised,
                                 result |-> r.result])
    /\ UNCHANGED <<schemas_damage, threads, enterprise_schemas>>
    /\ UNCHANGED notLkVars

LookupKeyword ==
    /\ Len(lk_log) < MaxLookups
    /\ \E key \in LookupKeywords :
          Returned("get_resources_by_keyword", key,
                   GetResourcesByKeyword(enterprise_schemas, schemas_damage, Globals, key))

LookupCategory ==
    /\ Len(lk_log) < MaxLookups
    /\ \E key \in LookupCategories :
          Returned("get_resources_by_category", key,
                   GetResourcesByCategory(enterprise_schemas, schemas_damage, Globals, key))

LookupSchema ==
    /\ Len(lk_log) < MaxLookups
    /\ \E rid \in LookupIds :
          Returned("get_resource_schema", rid,
                   GetResourceSchemaOf(enterprise_schemas, schemas_damage, Globals, rid))

LookupSynonyms ==
    /\ Len(lk_log) < MaxLookups
    /\ \E term \in LookupTerms :
          Returned("get_all_synonyms", term,
                   [g |-> Globals, raised |-> FALSE, result |-> GetAllSynonyms(index, term)])

LookupNext == LookupKeyword \/ LookupCategory \/ LookupSchema \/ LookupSynonyms

SpecLookupInit == SynLoaded /\ LookupInit /\ OtherThanLkIdle

SpecLookup == SpecLookupInit /\ [][LookupNext]_vars

\* the key of the lookup is in no entry of the data the function looks it up in
MissingKey(e) ==
    IF e.fn = "get_resources_by_keyword"
    THEN Lower(e.key) \notin DOMAIN KeywordToResources(enterprise_schemas)
    ELSE IF e.fn = "get_resources_by_category"
    THEN Lower(e.key) \notin DOMAIN CategoryToResources(enterprise_schemas)
    ELSE IF e.fn = "get_resource_schema"
    THEN GetResourceSchema(enterprise_schemas, e.key) = <<>>
    ELSE Lower(e.key) \notin DOMAIN index /\ e.key \notin DOMAIN index

\* the default of the function: [term], [] or None
DefaultOf(e) == IF e.fn = "get_all_synonyms" THEN {e.key} ELSE <<>>

\* C14: every lookup is total: whether or not the schema file was loaded
\* successfully, get_all_synonyms, get_resources_by_keyword,
\* get_resources_by_category and get_resource_schema never raise, and for a
\* missing key they return their default.
C14_LookupsTotal ==
    \A i \in DOMAIN lk_log :
        /\ ~lk_log[i].raised
        /\ MissingKey(lk_log[i]) => lk_log[i].result = DefaultOf(lk_log[i])


(***************************************************************************)
(* SpecRace: several callers look a key up in the keyword index while it   *)
(* has not been built, each in its own thread.  A step of a caller is one  *)
(* statement of _load_keyword_index or of _load_enterprise_schemas; the    *)
(* body of the loop over the datasets and the read after the load are      *)
(* taken as one step each, which only removes interleavings.               *)
(***************************************************************************)
MaxCallers == 2

Callers == 1..MaxCallers

EmptyDict == [k \in {} |-> <<>>]

\* d[key].extend(resource_ids) for every key of keys in order, d[key] being
\* created empty when it is missing (lines 192-208)
ExtendAll(d, keys, resource_ids) ==
    [k \in DOMAIN d \cup Range(keys) |->
        BucketGet(d, k) \o Repeat(resource_ids, Count(keys, k))]

\* the caller t is at the statement at
At(t, at) == threads[t].pc = at

\* the caller t moves on to the statement at
Goto(t, at) == threads' = [threads EXCEPT ![t].pc = at]

RaceInit ==
    /\ enterprise_schemas \in SchemaFiles
    /\ schemas_damage = "none"
    /\ schemas_loaded = FALSE
    /\ schemas_cache = <<>>
    /\ schema_index = <<>>
    /\ keyword_index_loaded = FALSE
    /\ keyword_to_resources = <<>>
    /\ category_to_resources = <<>>
    /\ lk_log = <<>>
    /\ threads \in [Callers ->
                       [pc : {"check_index"},
                        fn : {"get_resources_by_keyword", "get_resources_by_category"},
                        key : {w_haifa, w_Tax},
                        schemas : {<<>>}, i : {1}, built : {FALSE}, result : {<<>>}]]

\* line 165: if _keyword_index_loaded: return
CheckIndexLoaded(t) ==
    /\ At(t, "check_index")
    /\ Goto(t, IF keyword_index_loaded THEN "read" ELSE "set_index_loaded")
    /\ UNCHANGED <<glVars, lk_log, enterprise_schemas>>
    /\ UNCHANGED notLkVars

\* line 168: _keyword_index_loaded = True
SetIndexLoaded(t) ==
    /\ At(t, "set_index_loaded")
    /\ keyword_index_loaded' = TRUE
    /\ threads' = [threads EXCEPT ![t].pc = "new_keywords", ![t].built = TRUE]
    /\ UNCHANGED <<schemas_damage, schemas_loaded, schemas_cache, schema_index,
                   keyword_to_resources, category_to_resources, lk_log,
                   enterprise_schemas>>
    /\ UNCHANGED notLkVars

\* line 169: _keyword_to_resources = {}
NewKeywordDict(t) ==
    /\ At(t, "new_keywords")
    /\ keyword_to_resources' = <<EmptyDict>>
    /\ Goto(t, "new_categories")
    /\ UNCHANGED <<schemas_damage, schemas_loaded, schemas_cache, schema_index,
                   keyword_index_loaded, category_to_resources, lk_log,
                   enterprise_schemas>>
    /\ UNCHANGED notLkVars

\* line 170: _category_to_resources = {}
NewCategoryDict(t) ==
    /\ At(t, "new_categories")
    /\ category_to_resources' = <<EmptyDict>>
    /\ Goto(t, "check_schemas")
    /\ UNCHANGED <<schemas_damage, schemas_loaded, schemas_cache, schema_index,
                   keyword_index_loaded, keyword_to_resources, lk_log,
                   enterprise_schemas>>
    /\ UNCHANGED notLkVars

\* line 173 into lines 107-108: if _schemas_loaded: return _enterprise_schemas
CheckSchemasLoaded(t) ==
    /\ At(t, "check_schemas")
    /\ threads' = IF schemas_loaded
                  THEN [threads EXCEPT ![t].pc = "have_schemas",
                                       ![t].schemas = schemas_cache]
                  ELSE [threads EXCEPT ![t].pc = "set_schemas_loaded"]
    /\ UNCHANGED <<glVars, lk_log, enterprise_schemas>>
    /\ UNCHANGED notLkVars

\* line 110: _schemas_loaded = True
SetSchemasLoaded(t) ==
    /\ At(t, "set_schemas_loaded")
    /\ schemas_loaded' = TRUE
    /\ Goto(t, "load_schemas")
    /\ UNCHANGED <<schemas_damage, schemas_cache, schema_index, keyword_index_loaded,
                   keyword_to_resources, category_to_resources, lk_log,
                   enterprise_schemas>>
    /\ UNCHANGED notLkVars

\* lines 111-141: the rest of _load_enterprise_schemas
ReadSchemaFile(t) ==
    /\ At(t, "load_schemas")
    /\ IF enterprise_schemas.present
       THEN /\ schemas_cache' = <<enterprise_schemas>>
            /\ schema_index' = <<EnterpriseSchemaIndex(enterprise_schemas)>>
            /\ threads' = [threads EXCEPT ![t].pc = "have_schemas",
                                          ![t].schemas = <<enterprise_schemas>>]
       ELSE /\ UNCHANGED <<schemas_cache, schema_index>>
            /\ threads' = [threads EXCEPT ![t].pc = "have_schemas", ![t].schemas = <<>>]
    /\ UNCHANGED <<schemas_damage, schemas_loaded, keyword_index_loaded,
                   keyword_to_resources, category_to_resources, lk_log,
                   enterprise_schemas>>
    /\ UNCHANGED notLkVars

\* lines 174-176: if not schemas: return
CheckSchemas(t) ==
    /\ At(t, "have_schemas")
    /\ threads' = IF threads[t].schemas = <<>>
                  THEN [threads EXCEPT ![t].pc = "read"]
                  ELSE [threads EXCEPT ![t].pc = "index_dataset", ![t].i = 1]
    /\ UNCHANGED <<glVars, lk_log, enterprise_schemas>>
    /\ UNCHANGED notLkVars

\* lines 178-208: one iteration of the loop over the datasets, or its end; the
\* dictionaries are the ones the globals name when the iteration runs
IndexDataset(t) ==
    /\ At(t, "index_dataset")
    /\ \E dss \in {threads[t].schemas[1].datasets} :
          IF threads[t].i > Len(dss)
          THEN /\ Goto(t, "read")
               /\ UNCHANGED <<keyword_to_resources, category_to_resources>>
          ELSE \E ds \in {dss[threads[t].i]} :
               \E resource_ids \in {SelectSeq(ds.resources, HasId)} :
                  /\ threads' = [threads EXCEPT ![t].i = @ + 1]
                  /\ IF resource_ids = <<>>
                     THEN UNCHANGED <<keyword_to_resources, category_to_resources>>
                     ELSE /\ keyword_to_resources' =
                                <<ExtendAll(keyword_to_resources[1], KeywordKeys(ds),
                                            resource_ids)>>
                          /\ category_to_resources' =
                                <<ExtendAll(category_to_resources[1], CategoryKeys(ds),
                                            resource_ids)>>
    /\ UNCHANGED <<schemas_damage, schemas_loaded, schemas_cache, schema_index,
                   keyword_index_loaded, lk_log, enterprise_schemas>>
    /\ UNCHANGED notLkVars

\* lines 224-226 and 240-242: the read of the index after _load_keyword_index()
ReadIndex(t) ==
    /\ At(t, "read")
    /\ threads' = [threads EXCEPT
                      ![t].pc = "returned",
                      ![t].result =
                          <<DictGet(IF threads[t].fn = "get_resources_by_keyword"
                                    THEN keyword_to_resources
                                    ELSE category_to_resources, threads[t].key)>>]
    /\ UNCHANGED <<glVars, lk_log, enterprise_schemas>>
    /\ UNCHANGED notLkVars

RaceNext ==
    \E t \in Callers :
        \/ CheckIndexLoaded(t)
        \/ SetIndexLoaded(t)
        \/ NewKeywordDict(t)
        \/ NewCategoryDict(t)
        \/ CheckSchemasLoaded(t)
        \/ SetSchemasLoaded(t)
        \/ ReadSchemaFile(t)
        \/ CheckSchemas(t)
        \/ IndexDataset(t)
        \/ ReadIndex(t)

SpecRaceInit == SynLoaded /\ RaceInit /\ OtherThanLkIdle

SpecRace == SpecRaceInit /\ [][RaceNext]_vars

\* what the lookup of the caller t returns from the completely built index
CompleteAnswer(t) ==
    DictGet(IF threads[t].fn = "get_resources_by_keyword"
            THEN <<KeywordToResources(enterprise_schemas)>>
            ELSE <<CategoryToResources(enterprise_schemas)>>, threads[t].key)

\* C15: when several callers race on the first access, the keyword index is
\* built at most once, and every lookup that returns has read the completely
\* built index, never an empty or a partially filled one.
C15_BuiltOnceAndReadComplete ==
    /\ Cardinality({t \in Callers : threads[t].built}) <= 1
    /\ \A t \in Callers :
          threads[t].pc = "returned" => threads[t].result = <<CompleteAnswer(t)>>


\* C16: two runs of _decompose_query on the same query, with the same synonym
\* index and the same gazetteer, give the same subject_tokens, location_tokens,
\* location_tokens_original, expanded_subjects and all_tokens; the second run
\* may be in another process, which iterates the set of the gazetteer in its
\* own order.
C16_DecompositionDeterministic ==
    decomposed # <<>> =>
        \A order \in LocOrders : DecomposeQuery(index, order, query) = decomposed[1]

(***************************************************************************)
(* C17: a count query and the records its totals are computed over         *)
(***************************************************************************)
\* a call for a count query that returned data
CountAnswered ==
    pc = "done" /\ outcome = "data" /\ response_data # <<>> /\ IsCountQuery(query)

\* C17: when datagov_query answers a count query with data, it has fetched
\* every record of the selected resource: as many records are returned as the
\* resource holds, and the summary total of the numeric column counts every
\* record of the resource, whatever the total and the caller's limit and offset
C17_CountQueryCoversAllRecords ==
    CountAnswered =>
        /\ response_data[1].returned = response_data[1].total_records
        /\ response_data[1].total_records > 0 =>
              /\ "x" \in DOMAIN response_data[1].summary_totals
              /\ response_data[1].summary_totals["x"].count = response_data[1].total_records

(***************************************************************************)
(* C18: overlapping raw groups                                             *)
(***************************************************************************)
\* x and z are linked by a term y that shares a raw group with each of them
Overlap(x, z) ==
    \E y \in UNION {Group(raw, k) : k \in DOMAIN raw} : ShareGroup(x, y) /\ ShareGroup(y, z)

\* C18: when two raw groups overlap, a term of one is among the synonyms that
\* get_all_synonyms returns for a term of the other, in both directions
C18_TransitiveMerge ==
    \A x \in DOMAIN synLog : \A z \in DOMAIN synLog :
        Overlap(x, z) => (z \in synLog[x] /\ x \in synLog[z])

(***************************************************************************)
(* C19: the category-match bonus                                           *)
(***************************************************************************)
\* the resources of the map that suggest_for_query scored with a schema entry
SchemaScored ==
    {r \in UNION {Range(map_data[k].resources) : k \in DOMAIN map_data} :
        HasId(r.id) /\ GetResourceSchema(enterprise_schemas, r.id) # <<>>}

\* C19: after a call of suggest_for_query, the category-match bonus (in
\* hundredths) that the call added to the score of a resource with a schema
\* entry is at most 0.12, whatever the query and the categories of the entry
C19_CategoryBonusAtMost12 ==
    suggested # <<>> =>
        \A r \in SchemaScored :
            CategoryBonus(raw, GetResourceSchema(enterprise_schemas, r.id)[1].categories,
                          1, Lower(query)) <= 12

(***************************************************************************)
(* C20: retention and clamping of the candidates                           *)
(***************************************************************************)
\* the resource scores (lines 1559-1617) of the resources of the map that the
\* candidate c can stand for, under the decomposition d and the keyword scores
ResourceScoresOf(c, d, kscores) ==
    LET pairs == UNION {{<<map_data[k], map_data[k].resources[j]>> :
                            j \in DOMAIN map_data[k].resources} : k \in DOMAIN map_data}
        stood == {pr \in pairs : /\ pr[1].id = c.dataset_id
                                 /\ pr[2].id = c.resource_id
                                 /\ Upper(pr[2].format) = c.format}
        base_score(ds) ==
            RAdd(RMul(CalculateSubjectMatch(d.subject_tokens, d.expanded_subjects,
                                            AllDsText(ds)), Rat(7, 10)),
                 RMul(CalculateLocationMatch(d.location_tokens, AllDsText(ds)), Rat(1, 10)))
    IN  {ResourceScore(raw, enterprise_schemas, kscores, query, d.subject_tokens,
                       d.expanded_subjects, base_score(pr[1]), pr[2]) : pr \in stood}

\* C20: every candidate that suggest_for_query returned stands for a resource of
\* the map whose resource_score is strictly greater than 0.1, its reported score
\* is that resource_score clamped to 1 and rounded, and lies in [0, 1]
C20_RetainedAndClamped ==
    \A res \in Range(suggested) :
        \E d \in {DecomposeQuery(index, locOrder, query)} :
        \E kscores \in {FindMatchingResources(index, enterprise_schemas, d.subject_tokens,
                                              d.expanded_subjects)} :
            \A i \in DOMAIN res.candidates :
                /\ res.candidates[i].score >= 0 /\ res.candidates[i].score <= 1000
                /\ \E rs \in ResourceScoresOf(res.candidates[i], d, kscores) :
                      /\ RLess(Rat(1, 10), rs)
                      /\ res.candidates[i].score = Round3(RMin(One, rs))

\* C20 witness: a call returned a candidate whose resource_score exceeds 1 and is
\* reported as 1, and one whose score is below 1
C20_Witness ==
    \E res \in Range(suggested) :
        \E d \in {DecomposeQuery(index, locOrder, query)} :
        \E kscores \in {FindMatchingResources(index, enterprise_schemas, d.subject_tokens,
                                              d.expanded_subjects)} :
            /\ \E i \in DOMAIN res.candidates :
                  /\ res.candidates[i].score = 1000
                  /\ \E rs \in ResourceScoresOf(res.candidates[i], d, kscores) : RLess(One, rs)
            /\ \E i \in DOMAIN res.candidates : res.candidates[i].score < 1000

(***************************************************************************)
(* C21: the returned candidates are the first N of the ranked resources    *)
(***************************************************************************)
\* entry i of the list all comes before entry j in rank order: its score is
\* higher, or equal with i earlier in the list
RanksBefore(all, i, j) ==
    all[i].score > all[j].score \/ (all[i].score = all[j].score /\ i < j)

\* the entry of the list all that has exactly k - 1 entries before it in rank order
Ranked(all, k) ==
    all[CHOOSE i \in DOMAIN all :
            Cardinality({j \in DOMAIN all : RanksBefore(all, j, i)}) = k - 1]

\* the smaller of the limit and the number of retained resources
Kept(all) == IF limit < Len(all) THEN limit ELSE Len(all)

\* C21: for a limit N >= 0, the candidates suggest_for_query returned are the
\* first N of the retained resources in rank order (score descending, equal
\* scores in corpus order), at most N of them, with one template per candidate
\* in the same order
C21_TopNStable ==
    \A res \in Range(suggested) :
        \E d \in {DecomposeQuery(index, locOrder, query)} :
        \E kscores \in {FindMatchingResources(index, enterprise_schemas, d.subject_tokens,
                                              d.expanded_subjects)} :
        \E all \in {AllCandidates(raw, enterprise_schemas, kscores, query, d, map_data, 1)} :
            limit >= 0 =>
                /\ Len(res.candidates) = Kept(all)
                /\ Len(res.candidates) <= limit
                /\ \A k \in DOMAIN res.candidates : res.candidates[k] = Ranked(all, k)
                /\ Len(res.templates) = Len(res.candidates)
                /\ \A k \in DOMAIN res.templates :
                      /\ res.templates[k].choice = res.candidates[k]
                      /\ res.templates[k].resource_id = res.candidates[k].resource_id
                      /\ res.templates[k].dataset_id = res.candidates[k].dataset_id

\* C21 witness: a call with limit 1 on a corpus with several retained resources,
\* the highest score being shared by two different ones; the earlier is returned
C21_Witness ==
    \E res \in Range(suggested) :
        \E d \in {DecomposeQuery(index, locOrder, query)} :
        \E kscores \in {FindMatchingResources(index, enterprise_schemas, d.subject_tokens,
                                              d.expanded_subjects)} :
        \E all \in {AllCandidates(raw, enterprise_schemas, kscores, query, d, map_data, 1)} :
            /\ limit = 1
            /\ Len(res.candidates) = 1
            /\ \E i \in DOMAIN all : \E j \in DOMAIN all :
                  /\ i < j
                  /\ all[i].score = all[j].score
                  /\ all[i] # all[j]
                  /\ \A k \in DOMAIN all : all[k].score <= all[i].score
                  /\ res.candidates[1] = all[i]

(***************************************************************************)
(* C22: the buckets of the keyword index                                   *)
(***************************************************************************)
\* no entry of the list s occurs in it twice
NoRepeats(s) == \A i \in DOMAIN s : \A j \in DOMAIN s : s[i] = s[j] => i = j

\* the keyword index has been built from a schema file that could be read
IndexBuilt ==
    /\ keyword_index_loaded
    /\ keyword_to_resources # <<>> /\ category_to_resources # <<>>
    /\ schemas_damage = "none"
    /\ enterprise_schemas.present

\* C22: once the keyword index is built, the bucket of every keyword, title
\* word and category names each resource identifier at most once
C22_BucketsAreSets ==
    IndexBuilt =>
        /\ \A k \in DOMAIN keyword_to_resources[1] : NoRepeats(keyword_to_resources[1][k])
        /\ \A k \in DOMAIN category_to_resources[1] : NoRepeats(category_to_resources[1][k])

(***************************************************************************)
(* C23: the score of find_matching_resources                               *)
(***************************************************************************)
\* the key is a key of the keyword index whose bucket holds the resource
Holds(kidx, key, rid) == \E i \in DOMAIN BucketGet(kidx, key) : BucketGet(kidx, key)[i] = rid

\* what the token contributes to the resource, in tenths: 1.0 for a variant equal
\* to the token (lower-cased), 0.8 for every other variant and 0.5 for every
\* synonym of a variant not counted as a variant, each being a key that holds
\* the resource
StatedTokenScore(idx, kidx, token, rid) ==
    LET vlowers == {Lower(v) : v \in GetHebrewVariants(token)}
        slowers == {Lower(syn) : syn \in UNION {GetAllSynonyms(idx, v) :
                                                   v \in GetHebrewVariants(token)}} \ vlowers
    IN  Sum([vl \in {x \in vlowers : Holds(kidx, x, rid)} |->
                IF vl = Lower(token) THEN 10 ELSE 8])
        + Sum([sl \in {x \in slowers : Holds(kidx, x, rid)} |-> 5])

\* the additive total over the tokens stoks followed by the elements of exps
StatedScore(idx, kidx, stoks, exps, rid) ==
    Sum([i \in 1..Len(stoks) |-> StatedTokenScore(idx, kidx, stoks[i], rid)])
    + Sum([e \in exps |-> StatedTokenScore(idx, kidx, e, rid)])

\* C23: the result of find_matching_resources on the tokens of the call maps
\* every resource matched by some key to the additive total of 1.0, 0.8 and 0.5
\* per matching key and token, and has no entry for any other resource
C23_AdditiveKeyScores ==
    suggested # <<>> =>
        \E d \in {DecomposeQuery(index, locOrder, query)} :
        \E kidx \in {KeywordToResources(enterprise_schemas)} :
        \E matches \in {FindMatchingResources(index, enterprise_schemas, d.subject_tokens,
                                              d.expanded_subjects)} :
            /\ \A rid \in DOMAIN matches :
                  matches[rid] = StatedScore(index, kidx, d.subject_tokens,
                                             d.expanded_subjects, rid)
            /\ \A rid \in UNION {Range(kidx[k]) : k \in DOMAIN kidx} :
                  rid \notin DOMAIN matches =>
                      StatedScore(index, kidx, d.subject_tokens, d.expanded_subjects, rid) = 0

(***************************************************************************)
(* SpecNormalize: one call _tokenize_hebrew(text, strip_prefixes) and one  *)
(* call get_hebrew_variants(word)                                          *)
(***************************************************************************)
\* the words given to get_hebrew_variants: the empty string, words of one
\* character, words with and without a prefix and a plural suffix
NormalizerWords ==
    {<<>>, <<"a">>, <<"bet">>, w_of, w_Tax, he_mas, he_misim, he_hamisim, he_bhaifa,
     he_baviv, Join(<<w_Tax, he_misim>>)}

NormalizeInit ==
    /\ nm_text \in Queries
    /\ nm_strip_prefixes \in BOOLEAN
    /\ nm_tokens = <<>>
    /\ nm_word \in NormalizerWords
    /\ nm_variants = <<>>

\* a call _tokenize_hebrew(text, strip_prefixes)
CallTokenizeHebrew ==
    /\ nm_tokens = <<>>
    /\ nm_tokens' = <<TokenizeHebrew(nm_text, nm_strip_prefixes)>>
    /\ UNCHANGED <<nm_text, nm_strip_prefixes, nm_word, nm_variants>>
    /\ UNCHANGED notNmVars

\* a call get_hebrew_variants(word); no statement of it can raise for a string
CallGetHebrewVariants ==
    /\ nm_variants = <<>>
    /\ nm_variants' = <<[raised |-> FALSE, variants |-> GetHebrewVariants(nm_word)]>>
    /\ UNCHANGED <<nm_text, nm_strip_prefixes, nm_tokens, nm_word>>
    /\ UNCHANGED notNmVars

NormalizeNext == CallTokenizeHebrew \/ CallGetHebrewVariants

SpecNormalizeInit == SynLoaded /\ NormalizeInit /\ OtherThanNmIdle

SpecNormalize == SpecNormalizeInit /\ [][NormalizeNext]_vars

\* the tokens that survive the filter of line 1092, unmodified
Surviving == TokenizeHebrew(nm_text, FALSE)

\* the word is a name of the gazetteer, letter case aside
IsLocationName(word) == \E loc \in ISRAELI_LOCATIONS : Lower(loc) = Lower(word)

\* C24: when _tokenize_hebrew runs with strip_prefixes set, every surviving
\* token is returned in its place either unmodified or with a prefix of
\* HEBREW_PREFIXES stripped, and stripped only when the stripped form equals a
\* name of the gazetteer
C24_StrippedOnlyToLocationName ==
    (nm_tokens # <<>> /\ nm_strip_prefixes) =>
        /\ Len(nm_tokens[1]) = Len(Surviving)
        /\ \A i \in DOMAIN Surviving :
              \/ nm_tokens[1][i] = Surviving[i]
              \/ /\ \E n \in {1, 2} : /\ Len(Surviving[i]) > n
                                      /\ SubSeq(Surviving[i], 1, n) \in HEBREW_PREFIXES
                                      /\ nm_tokens[1][i] = DropFirst(Surviving[i], n)
                 /\ IsLocationName(nm_tokens[1][i])

\* C25: get_hebrew_variants raises nothing, its result contains the word it was
\* given, and a word shorter than 2 characters is returned alone
C25_VariantsContainInput ==
    \A r \in Range(nm_variants) :
        /\ ~r.raised
        /\ nm_word \in r.variants
        /\ Len(nm_word) < 2 => r.variants = {nm_word}

(***************************************************************************)
(* C26: location_tokens and location_tokens_original                       *)
(***************************************************************************)
\* the token stripped is the token original without a prefix of HEBREW_PREFIXES
PrefixStripped(original, stripped) ==
    \E p \in HEBREW_PREFIXES : original = p \o stripped

\* C26: in every decomposition location_tokens and location_tokens_original
\* have the same length, and entry i of the first is entry i of the second or
\* that entry with one prefix of HEBREW_PREFIXES stripped
C26_LocationListsCorrespond ==
    \A d \in Range(decomposed) :
        /\ Len(d.location_tokens) = Len(d.location_tokens_original)
        /\ \A i \in DOMAIN d.location_tokens :
              \/ d.location_tokens[i] = d.location_tokens_original[i]
              \/ PrefixStripped(d.location_tokens_original[i], d.location_tokens[i])

\* C26 witness: a decomposition with a location token kept as written and one
\* recorded without its prefix
C26_Witness ==
    \E d \in Range(decomposed) :
        /\ \E i \in DOMAIN d.location_tokens :
              d.location_tokens[i] = d.location_tokens_original[i]
        /\ \E i \in DOMAIN d.location_tokens :
              /\ d.location_tokens[i] # d.location_tokens_original[i]
              /\ i \in DOMAIN d.location_tokens_original
              /\ PrefixStripped(d.location_tokens_original[i], d.location_tokens[i])


\* the top score of the result the call holds after the fallback loop: that of
\* the rephrased query that replaced the original result, or of the original
HeldTopScore ==
    IF used_rephrase # <<>> THEN TopScore(scored[Len(scored)].returned[1])
    ELSE initial_score

\* the call has passed the final check of the confidence
PastFinalCheck ==
    /\ pc \in {"schema", "fetch", "done"}
    /\ outcome \notin {"query_required", "map_not_loaded", "processing_error"}

\* C27: a request to the data API (the schema or the records of a resource) is
\* made only when the result held after the fallback loop has a top candidate
\* scoring at least 0.35; when it has none, the call answers query_too_vague or
\* not_in_datagov with no request made
C27_NoFetchBelowConfidence ==
    /\ upstream # <<>> => HeldTopScore >= MIN_CONFIDENCE
    /\ outcome \in {"query_too_vague", "not_in_datagov"} => upstream = <<>>
    /\ PastFinalCheck /\ HeldTopScore < MIN_CONFIDENCE =>
          /\ outcome \in {"query_too_vague", "not_in_datagov"}
          /\ upstream = <<>>

\* records were requested for a rephrased query that replaced an original result
\* below the confidence
C27_Witness ==
    /\ RecordRequests # <<>>
    /\ used_rephrase # <<>>
    /\ initial_score < MIN_CONFIDENCE
    /\ HeldTopScore >= MIN_CONFIDENCE


\* the elements of full at the positions keep, in the order of full
AtPositions(full, keep) ==
    LET positions == SelectSeq([i \in DOMAIN full |-> i], LAMBDA i : i \in keep)
    IN  [k \in DOMAIN positions |-> full[positions[k]]]

\* sub is full with some of its elements left out
IsSubList(sub, full) == \E keep \in SUBSET DOMAIN full : sub = AtPositions(full, keep)

\* the intent is one of the words the filter maps to an availability category
NamesCategory(intent) ==
    Lower(intent) \in {w_phone, w_phones, he_telefon, w_contact, w_address, w_location,
                       w_email, w_date, w_city}

\* C29: the result of filter_by_field_availability is the candidate list with
\* some candidates left out, none added and none moved, and it is the candidate
\* list itself when no intent names an availability category
C29_OrderPreservingSubList ==
    \A r \in Range(filtered) :
        /\ IsSubList(r, fl_candidates)
        /\ (\A i \in DOMAIN field_intents : ~NamesCategory(field_intents[i]))
              => r = fl_candidates

\* a candidate was left out and a candidate after it was kept
C29_Witness ==
    \E r \in Range(filtered) :
        /\ Len(fl_candidates) >= 2
        /\ r = Tail(fl_candidates)
        /\ fl_candidates[1] # fl_candidates[2]


\* the format and the score that make a candidate preferred
HasDatastoreFormat(c) == Upper(c.format) \in {w_CSV, w_JSON, w_XLSX}
Preferred(c) == HasDatastoreFormat(c) /\ c.score > 100

\* C30: the resource every request names is that of the selected candidate, a
\* member of the filtered candidate list: the first candidate, in the order of
\* the list, of format CSV, JSON or XLSX and score above 0.1, and the first of
\* the list when no candidate has such a format; when the selected candidate
\* has no resource_id the call answers with an error and requests nothing
C30_FetchesSelectedCandidate ==
    /\ upstream # <<>> => best # <<>>
    /\ best # <<>> =>
          LET cands == dq_candidates[1].candidates
          IN  /\ \E i \in DOMAIN cands : cands[i] = best[1]
              /\ \A i \in DOMAIN cands :
                    Preferred(cands[i]) /\ (\A j \in 1..(i - 1) : ~Preferred(cands[j]))
                       => best[1] = cands[i]
              /\ (\A i \in DOMAIN cands : ~HasDatastoreFormat(cands[i]))
                    => best[1] = cands[1]
              /\ \A k \in DOMAIN upstream :
                    /\ upstream[k].resource_id = best[1].resource_id
                    /\ HasId(best[1].resource_id)
              /\ ~HasId(best[1].resource_id) => pc = "done" /\ outcome = "no_resource_id"

\* records were requested of a candidate that is not the first of the list
C30_Witness ==
    /\ RecordRequests # <<>>
    /\ best # <<>>
    /\ best[1] # dq_candidates[1].candidates[1]
    /\ RecordRequests[1].resource_id = best[1].resource_id


(***************************************************************************)
(* SpecEmbed: the embedding model repository (src/BAAI).  One thread calls *)
(* create_embeddings up to MaxRequests times, the timer thread runs the    *)
(* idle-timeout callback, and the worker process runs _run_process.  Every *)
(* read and write of what they share is a step of its own.                 *)
(***************************************************************************)
MaxRequests == 2

\* what handle_command sends back for a request: the embeddings, or the exception
\* the model raised (bge_m3_embedding_worker.py lines 119-124)
ResultKinds == {"embeddings", "exception"}

EmbedInit == EmIdle

\* create_embeddings, line 76: the thread enters "with self._lock"
RequestAcquire ==
    /\ em_request_pc = "idle"
    /\ em_requests < MaxRequests
    /\ em_lock = ""
    /\ em_lock' = "request"
    /\ em_request_pc' = "lock"
    /\ em_requests' = em_requests + 1
    /\ UNCHANGED <<em_process, em_stop_event, em_is_processing, em_pipe_child,
                   em_pipe_parent, em_worker_pc, em_command, em_results, em_timer,
                   em_cancelled, em_timer_pc>>
    /\ UNCHANGED notEmVars

\* create_embeddings, lines 77-79, with BaseWorker.start (base_worker.py lines
\* 87-100), and the release of the lock
RequestStartWorker ==
    /\ em_request_pc = "lock"
    /\ IF em_process # "running"
       THEN /\ em_stop_event' = FALSE
            /\ em_process' = "running"
            /\ em_worker_pc' = "loop"
            /\ em_command' = <<>>
       ELSE UNCHANGED <<em_stop_event, em_process, em_worker_pc, em_command>>
    /\ em_lock' = ""
    /\ em_request_pc' = "start"
    /\ UNCHANGED <<em_is_processing, em_pipe_child, em_pipe_parent, em_requests,
                   em_results, em_timer, em_cancelled, em_timer_pc>>
    /\ UNCHANGED notEmVars

\* BgeM3EmbeddingWorker.create_embeddings, lines 46-47
RequestCheckAlive ==
    /\ em_request_pc = "start"
    /\ IF em_process = "running"
       THEN /\ em_request_pc' = "send"
            /\ UNCHANGED em_results
       ELSE /\ em_request_pc' = "idle"
            /\ em_results' = Append(em_results, [request |-> em_requests,
                                                 ended |-> "WorkerNotRunningError",
                                                 answer_to |-> 0])
    /\ UNCHANGED <<em_process, em_stop_event, em_is_processing, em_lock, em_pipe_child,
                   em_pipe_parent, em_worker_pc, em_command, em_requests, em_timer,
                   em_cancelled, em_timer_pc>>
    /\ UNCHANGED notEmVars

\* BgeM3EmbeddingWorker.create_embeddings, line 49
RequestSend ==
    /\ em_request_pc = "send"
    /\ em_pipe_child' = Append(em_pipe_child, em_requests)
    /\ em_request_pc' = "recv"
    /\ UNCHANGED <<em_process, em_stop_event, em_is_processing, em_lock, em_pipe_parent,
                   em_worker_pc, em_command, em_requests, em_results, em_timer,
                   em_cancelled, em_timer_pc>>
    /\ UNCHANGED notEmVars

\* BgeM3EmbeddingWorker.create_embeddings, lines 50-55: recv blocks until the
\* worker has sent a result
RequestRecv ==
    /\ em_request_pc = "recv"
    /\ em_pipe_parent # <<>>
    /\ \E result \in {Head(em_pipe_parent)} :
          /\ em_results' = Append(em_results,
                                  [request |-> em_requests,
                                   ended |-> IF result.kind = "exception" THEN "raised"
                                             ELSE "result",
                                   answer_to |-> result.request])
          /\ em_request_pc' = IF result.kind = "exception" THEN "idle" ELSE "timer"
    /\ em_pipe_parent' = Tail(em_pipe_parent)
    /\ UNCHANGED <<em_process, em_stop_event, em_is_processing, em_lock, em_pipe_child,
                   em_worker_pc, em_command, em_requests, em_timer, em_cancelled,
                   em_timer_pc>>
    /\ UNCHANGED notEmVars

\* create_embeddings, lines 93-101: timer.start(model_idle_timeout, ...) with an
\* interval above 0 (timer.py lines 87-91 and 36-42), and the return
RequestStartTimer ==
    /\ em_request_pc = "timer"
    /\ em_cancelled' = FALSE
    /\ em_timer' = TRUE
    /\ em_request_pc' = "idle"
    /\ UNCHANGED <<em_process, em_stop_event, em_is_processing, em_lock, em_pipe_child,
                   em_pipe_parent, em_worker_pc, em_command, em_requests, em_results,
                   em_timer_pc>>
    /\ UNCHANGED notEmVars

\* the pending threading.Timer expires and runs Timer._execute (timer.py line 94)
TimerFire ==
    /\ em_timer
    /\ em_timer_pc = "idle"
    /\ em_timer' = FALSE
    /\ em_timer_pc' = IF em_cancelled THEN "idle" ELSE "check"
    /\ UNCHANGED <<em_process, em_stop_event, em_is_processing, em_lock, em_pipe_child,
                   em_pipe_parent, em_worker_pc, em_command, em_request_pc, em_requests,
                   em_results, em_cancelled>>
    /\ UNCHANGED notEmVars

\* _check_idle_timeout, line 50: the test, made before the lock is taken
CheckIdleTimeout ==
    /\ em_timer_pc = "check"
    /\ em_timer_pc' = IF em_process = "running" /\ ~em_is_processing THEN "lock"
                      ELSE "reset"
    /\ UNCHANGED <<em_process, em_stop_event, em_is_processing, em_lock, em_pipe_child,
                   em_pipe_parent, em_worker_pc, em_command, em_request_pc, em_requests,
                   em_results, em_timer, em_cancelled>>
    /\ UNCHANGED notEmVars

\* _check_idle_timeout, lines 51-52: the lock is taken and BaseWorker.stop sets
\* the stop event (base_worker.py lines 103-104)
TimerStopWorker ==
    /\ em_timer_pc = "lock"
    /\ em_lock = ""
    /\ em_lock' = "timer"
    /\ IF em_process = "running"
       THEN em_stop_event' = TRUE /\ em_timer_pc' = "join"
       ELSE UNCHANGED em_stop_event /\ em_timer_pc' = "cancel"
    /\ UNCHANGED <<em_process, em_is_processing, em_pipe_child, em_pipe_parent,
                   em_worker_pc, em_command, em_request_pc, em_requests, em_results,
                   em_timer, em_cancelled>>
    /\ UNCHANGED notEmVars

\* BaseWorker.stop, lines 105-110: the process has exited within the 5 seconds
\* of the join
TimerJoined ==
    /\ em_timer_pc = "join"
    /\ em_process = "exited"
    /\ em_process' = "none"
    /\ em_timer_pc' = "cancel"
    /\ UNCHANGED <<em_stop_event, em_is_processing, em_lock, em_pipe_child, em_pipe_parent,
                   em_worker_pc, em_command, em_request_pc, em_requests, em_results,
                   em_timer, em_cancelled>>
    /\ UNCHANGED notEmVars

\* BaseWorker.stop, lines 105-110: the join has timed out on a worker that is
\* still computing embeddings, and the process is terminated
TimerTerminates ==
    /\ em_timer_pc = "join"
    /\ em_process = "running"
    /\ em_worker_pc = "compute"
    /\ em_process' = "none"
    /\ em_worker_pc' = "none"
    /\ em_command' = <<>>
    /\ em_timer_pc' = "cancel"
    /\ UNCHANGED <<em_stop_event, em_is_processing, em_lock, em_pipe_child, em_pipe_parent,
                   em_request_pc, em_requests, em_results, em_timer, em_cancelled>>
    /\ UNCHANGED notEmVars

\* _check_idle_timeout, lines 53-54: timer.cancel() (timer.py lines 98-102), and
\* the release of the lock
TimerCancel ==
    /\ em_timer_pc = "cancel"
    /\ em_cancelled' = TRUE
    /\ em_timer' = FALSE
    /\ em_lock' = ""
    /\ em_timer_pc' = "reset"
    /\ UNCHANGED <<em_process, em_stop_event, em_is_processing, em_pipe_child,
                   em_pipe_parent, em_worker_pc, em_command, em_request_pc, em_requests,
                   em_results>>
    /\ UNCHANGED notEmVars

\* Timer._execute, line 96: _reset_timer (timer.py lines 36-42)
TimerReset ==
    /\ em_timer_pc = "reset"
    /\ em_timer' = ~em_cancelled
    /\ em_timer_pc' = "idle"
    /\ UNCHANGED <<em_process, em_stop_event, em_is_processing, em_lock, em_pipe_child,
                   em_pipe_parent, em_worker_pc, em_command, em_request_pc, em_requests,
                   em_results, em_cancelled>>
    /\ UNCHANGED notEmVars

\* _run_process, line 75: the test of the loop; the process ends when the stop
\* event is set (lines 82-85)
WorkerLoop ==
    /\ em_process = "running"
    /\ em_worker_pc = "loop"
    /\ IF em_stop_event
       THEN em_process' = "exited" /\ em_worker_pc' = "none"
       ELSE em_worker_pc' = "poll" /\ UNCHANGED em_process
    /\ UNCHANGED <<em_stop_event, em_is_processing, em_lock, em_pipe_child, em_pipe_parent,
                   em_command, em_request_pc, em_requests, em_results, em_timer,
                   em_cancelled, em_timer_pc>>
    /\ UNCHANGED notEmVars

\* _run_process, lines 76-77: pipe.poll(timeout=1) finds a command and receives
\* it, or times out
WorkerPoll ==
    /\ em_process = "running"
    /\ em_worker_pc = "poll"
    /\ IF em_pipe_child # <<>>
       THEN /\ em_command' = <<Head(em_pipe_child)>>
            /\ em_pipe_child' = Tail(em_pipe_child)
            /\ em_worker_pc' = "handle"
       ELSE /\ em_worker_pc' = "loop"
            /\ UNCHANGED <<em_command, em_pipe_child>>
    /\ UNCHANGED <<em_process, em_stop_event, em_is_processing, em_lock, em_pipe_parent,
                   em_request_pc, em_requests, em_results, em_timer, em_cancelled,
                   em_timer_pc>>
    /\ UNCHANGED notEmVars

\* handle_command, lines 96-97
WorkerBegin ==
    /\ em_process = "running"
    /\ em_worker_pc = "handle"
    /\ em_is_processing' = TRUE
    /\ em_worker_pc' = "compute"
    /\ UNCHANGED <<em_process, em_stop_event, em_lock, em_pipe_child, em_pipe_parent,
                   em_command, em_request_pc, em_requests, em_results, em_timer,
                   em_cancelled, em_timer_pc>>
    /\ UNCHANGED notEmVars

\* handle_command, lines 99-124: the embeddings are computed and the result, or
\* the exception, is sent
WorkerSend ==
    /\ em_process = "running"
    /\ em_worker_pc = "compute"
    /\ \E kind \in ResultKinds :
          em_pipe_parent' = Append(em_pipe_parent,
                                   [request |-> em_command[1], kind |-> kind])
    /\ em_worker_pc' = "finish"
    /\ UNCHANGED <<em_process, em_stop_event, em_is_processing, em_lock, em_pipe_child,
                   em_command, em_request_pc, em_requests, em_results, em_timer,
                   em_cancelled, em_timer_pc>>
    /\ UNCHANGED notEmVars

\* handle_command, lines 125-127
WorkerEnd ==
    /\ em_process = "running"
    /\ em_worker_pc = "finish"
    /\ em_is_processing' = FALSE
    /\ em_command' = <<>>
    /\ em_worker_pc' = "loop"
    /\ UNCHANGED <<em_process, em_stop_event, em_lock, em_pipe_child, em_pipe_parent,
                   em_request_pc, em_requests, em_results, em_timer, em_cancelled,
                   em_timer_pc>>
    /\ UNCHANGED notEmVars

EmbedNext ==
    \/ RequestAcquire
    \/ RequestStartWorker
    \/ RequestCheckAlive
    \/ RequestSend
    \/ RequestRecv
    \/ RequestStartTimer
    \/ TimerFire
    \/ CheckIdleTimeout
    \/ TimerStopWorker
    \/ TimerJoined
    \/ TimerTerminates
    \/ TimerCancel
    \/ TimerReset
    \/ WorkerLoop
    \/ WorkerPoll
    \/ WorkerBegin
    \/ WorkerSend
    \/ WorkerEnd

SpecEmbedInit == SynLoaded /\ EmbedInit /\ OtherThanEmIdle

SpecEmbed == SpecEmbedInit /\ [][EmbedNext]_vars

\* the request has been sent to the worker and no result has been sent back
InFlight == em_request_pc = "recv" /\ em_pipe_parent = <<>>

\* C28: while a request is in flight the worker process is running and is not
\* being stopped: its stop event is not set and it has not been terminated
C28_NotStoppedInFlight ==
    InFlight => em_process = "running" /\ ~em_stop_event

==========================================================================
